---- MODULE Spec2Model ----
(***************************************************************************)
(* A model of the lingual front end: the hand-written Tokenizer and the    *)
(* recursive-descent Parser behind LanguageManager.transpile, the          *)
(* ASTConverter, the middleware passes (type checker, hoister) and the     *)
(* block-macro interpreter.                                                *)
(*                                                                         *)
(* Source text is a sequence of one-character strings.  A JavaScript value *)
(* held by a Literal is a record [t, v]: t is what typeof reports for it   *)
(* and v its text, so that the number 1 and the string "1" differ.         *)
(* JavaScript null (an absent child node) is the record Null.              *)
(***************************************************************************)
EXTENDS Integers, Sequences, FiniteSets, TLC

VARIABLES
  source,     \* Tokenizer.source, as a sequence of characters
  position,   \* Tokenizer.position (0-based)
  line,       \* Tokenizer.line
  column,     \* Tokenizer.column
  tokens,     \* the token list built by Tokenizer.tokenize
  stage,      \* how far the running operation has got
  cst,        \* outcome of Parser.parse: a Program node or the thrown error
  ast,        \* the tree handed to a pass (ASTConverter output, or a given tree)
  out,        \* the tree returned by the last pass / by processProgram
  errors,     \* context.errors (the codes, in order)
  warnings,   \* context.warnings (the codes, in order)
  macros,     \* MacroInterpreter.macros: the registered definitions
  call,       \* the MacroCall last handed to MacroInterpreter.expandMacro
  ran,        \* the names of the operations run so far, in order
  names,      \* the middlewareNames list handed to applyMiddleware
  step        \* the iterations of the loop of applyMiddleware done so far

vars == <<source, position, line, column, tokens, stage, cst, ast, out,
          errors, warnings, macros, call, ran, names, step>>

lexVars == <<source, position, line, column, tokens>>

\* ------------------------------------------------------------------------
\* Bounds
\* ------------------------------------------------------------------------
MaxSrcLen == 3
MaxBody == 3
MaxPasses == 2
MaxOps == 2

\* ------------------------------------------------------------------------
\* JavaScript values
\* ------------------------------------------------------------------------
Null == [type |-> "null"]

JsString(s) == [t |-> "string", v |-> s]
JsNumber(s) == [t |-> "number", v |-> s]
JsBoolean(s) == [t |-> "boolean", v |-> s]
JsNull == [t |-> "object", v |-> "null"]

\* ------------------------------------------------------------------------
\* Characters
\* ------------------------------------------------------------------------
NL == "\n"
TAB == "\t"
CR == "\r"
DQ == "\""
SQ == "'"
BS == "\\"

Digits == {"0", "1", "2", "3", "4", "5", "6", "7", "8", "9"}

Letters == {"a", "b", "c", "d", "e", "f", "g", "h", "i", "j", "k", "l", "m",
            "n", "o", "p", "q", "r", "s", "t", "u", "v", "w", "x", "y", "z",
            "A", "B", "C", "D", "E", "F", "G", "H", "I", "J", "K", "L", "M",
            "N", "O", "P", "Q", "R", "S", "T", "U", "V", "W", "X", "Y", "Z",
            "_"}

isDigit(char) == char \in Digits

isLetter(char) == char \in Letters

isOperator(str) ==
  str \in {"+", "-", "*", "/", "%", "=", "==", "!=", "<", "<=", ">", ">=",
           "&&", "||", "!", "+=", "-=", "*=", "/=", "%=", "++", "--", ":"}

getKeywordType(value) ==
  CASE value = "if" -> "IF"
    [] value = "else" -> "ELSE"
    [] value = "while" -> "WHILE"
    [] value = "for" -> "FOR"
    [] value = "function" -> "FUNCTION"
    [] value = "return" -> "RETURN"
    [] value = "var" -> "VAR"
    [] value = "let" -> "LET"
    [] value = "const" -> "CONST"
    [] value = "true" -> "TRUE"
    [] value = "false" -> "FALSE"
    [] value = "null" -> "NULL"
    [] value = "undefined" -> "UNDEFINED"
    [] OTHER -> "IDENTIFIER"

\* ------------------------------------------------------------------------
\* Tokenizer (a scanner state is [pos, line, col])
\* ------------------------------------------------------------------------
Token(type, value, ln, col) ==
  [type |-> type, value |-> value, line |-> ln, column |-> col]

CharAt(src, p) == src[p + 1]

\* source.substring(from, to) as a string
RECURSIVE Substring(_, _, _)
Substring(src, from, to) ==
  IF from >= to \/ from >= Len(src) THEN ""
  ELSE CharAt(src, from) \o Substring(src, from + 1, to)

advance(s) == [s EXCEPT !.pos = @ + 1, !.col = @ + 1]

\* the loop of a line comment: up to, not including, the newline
RECURSIVE SkipLineComment(_, _)
SkipLineComment(src, s) ==
  IF s.pos < Len(src) /\ CharAt(src, s.pos) # NL
  THEN SkipLineComment(src, advance(s))
  ELSE s

\* the loop of a block comment, entered after the opening slash and star
RECURSIVE SkipBlockComment(_, _)
SkipBlockComment(src, s) ==
  IF s.pos >= Len(src) THEN s
  ELSE IF /\ CharAt(src, s.pos) = "*"
          /\ s.pos + 1 < Len(src)
          /\ CharAt(src, s.pos + 1) = "/"
       THEN advance(advance(s))
       ELSE IF CharAt(src, s.pos) = NL
            THEN SkipBlockComment(src, advance([s EXCEPT !.line = @ + 1, !.col = 1]))
            ELSE SkipBlockComment(src, advance(s))

RECURSIVE skipWhitespace(_, _)
skipWhitespace(src, s) ==
  IF s.pos >= Len(src) THEN s
  ELSE LET char == CharAt(src, s.pos) IN
    IF char \in {" ", TAB, CR} THEN skipWhitespace(src, advance(s))
    ELSE IF char = NL
      THEN skipWhitespace(src, [pos |-> s.pos + 1, line |-> s.line + 1, col |-> 1])
    ELSE IF char = "/" /\ s.pos + 1 < Len(src)
      THEN LET nextChar == CharAt(src, s.pos + 1) IN
           IF nextChar = "/" THEN skipWhitespace(src, SkipLineComment(src, s))
           ELSE IF nextChar = "*"
             THEN skipWhitespace(src, SkipBlockComment(src, advance(advance(s))))
           ELSE s
    ELSE s

\* the digit loops of readNumber: [value, s]
RECURSIVE ReadDigits(_, _, _)
ReadDigits(src, s, value) ==
  IF s.pos < Len(src) /\ isDigit(CharAt(src, s.pos))
  THEN ReadDigits(src, advance(s), value \o CharAt(src, s.pos))
  ELSE [value |-> value, s |-> s]

readNumber(src, s) ==
  LET int == ReadDigits(src, s, "")
      r == IF int.s.pos < Len(src) /\ CharAt(src, int.s.pos) = "."
           THEN ReadDigits(src, advance(int.s), int.value \o ".")
           ELSE int
  IN [tok |-> Token("NUMBER", r.value, s.line, s.col), s |-> r.s]

RECURSIVE ReadWord(_, _, _)
ReadWord(src, s, value) ==
  IF s.pos < Len(src) /\ (isLetter(CharAt(src, s.pos)) \/ isDigit(CharAt(src, s.pos)))
  THEN ReadWord(src, advance(s), value \o CharAt(src, s.pos))
  ELSE [value |-> value, s |-> s]

readIdentifier(src, s) ==
  LET r == ReadWord(src, s, "")
  IN [tok |-> Token(getKeywordType(r.value), r.value, s.line, s.col), s |-> r.s]

\* the loop of readString, entered after the opening quote
RECURSIVE ReadStringBody(_, _, _, _)
ReadStringBody(src, s, quote, value) ==
  IF s.pos < Len(src) /\ CharAt(src, s.pos) # quote
  THEN IF CharAt(src, s.pos) = BS
       THEN LET s1 == advance(s) IN
            IF s1.pos < Len(src)
            THEN ReadStringBody(src, advance(s1), quote,
                                value \o BS \o CharAt(src, s1.pos))
            ELSE ReadStringBody(src, s1, quote, value)
       ELSE ReadStringBody(src, advance(s), quote, value \o CharAt(src, s.pos))
  ELSE [value |-> value, s |-> s]

readString(src, s) ==
  LET quote == CharAt(src, s.pos)
      r == ReadStringBody(src, advance(s), quote, "")
      s2 == IF r.s.pos < Len(src) THEN advance(r.s) ELSE r.s
  IN [tok |-> Token("STRING", r.value, s.line, s.col), s |-> s2]

\* the candidate loop of readOperator: the longest prefix of operator
\* candidates of lengths 1..maxLength, stopping at the first non-operator
RECURSIVE OperatorScan(_, _, _, _, _)
OperatorScan(src, s, i, maxLength, value) ==
  IF i < maxLength /\ isOperator(Substring(src, s.pos, s.pos + i + 1))
  THEN OperatorScan(src, s, i + 1, maxLength, Substring(src, s.pos, s.pos + i + 1))
  ELSE value

readOperator(src, s) ==
  LET rest == Len(src) - s.pos
      maxLength == IF rest < 3 THEN rest ELSE 3
      value == OperatorScan(src, s, 0, maxLength, "")
  IN [tok |-> Token("OPERATOR", value, s.line, s.col),
      s |-> [s EXCEPT !.pos = @ + Len(value), !.col = @ + Len(value)]]

Punctuation(char) ==
  CASE char = "(" -> "LEFT_PAREN"
    [] char = ")" -> "RIGHT_PAREN"
    [] char = "{" -> "LEFT_BRACE"
    [] char = "}" -> "RIGHT_BRACE"
    [] char = "[" -> "LEFT_BRACKET"
    [] char = "]" -> "RIGHT_BRACKET"
    [] char = ";" -> "SEMICOLON"
    [] char = "," -> "COMMA"
    [] char = "." -> "DOT"
    [] OTHER -> "ERROR"

\* nextToken: [tok, s]; tok is Null when only whitespace was left
\* nextToken whose unknown-character branch leaves the position where it is
nextToken_noAdvance(src, s0) ==
  LET s == skipWhitespace(src, s0) IN
  IF s.pos >= Len(src) THEN [tok |-> Null, s |-> s]
  ELSE LET char == CharAt(src, s.pos) IN
    IF isDigit(char) THEN readNumber(src, s)
    ELSE IF isLetter(char) THEN readIdentifier(src, s)
    ELSE IF char = DQ \/ char = SQ THEN readString(src, s)
    ELSE IF isOperator(char) THEN readOperator(src, s)
    ELSE [tok |-> Token(Punctuation(char), char, s.line, s.col),
          s |-> IF Punctuation(char) = "ERROR" THEN s ELSE advance(s)]

nextToken(src, s0) ==
  LET s == skipWhitespace(src, s0) IN
  IF s.pos >= Len(src) THEN [tok |-> Null, s |-> s]
  ELSE LET char == CharAt(src, s.pos) IN
    IF isDigit(char) THEN readNumber(src, s)
    ELSE IF isLetter(char) THEN readIdentifier(src, s)
    ELSE IF char = DQ \/ char = SQ THEN readString(src, s)
    ELSE IF isOperator(char) THEN readOperator(src, s)
    ELSE [tok |-> Token(Punctuation(char), char, s.line, s.col), s |-> advance(s)]

\* ------------------------------------------------------------------------
\* Parser: every parse function takes the token list and the cursor
\* (Parser.current) and yields [ok, node, cur, err]: the node it returns and
\* the cursor afterwards, or (ok = FALSE) the Error it throws.
\* ------------------------------------------------------------------------
NoError == [message |-> "", located |-> FALSE, line |-> 0, column |-> 0]

\* new Error(message): no position in the message
Error(message) == [message |-> message, located |-> FALSE, line |-> 0, column |-> 0]

\* throwError: the message ends with "(at line L, column C)"
throwError(token, message) ==
  [message |-> message, located |-> TRUE, line |-> token.line, column |-> token.column]

Ret(node, cur) == [ok |-> TRUE, node |-> node, cur |-> cur, err |-> NoError]

Throw(err, cur) == [ok |-> FALSE, node |-> Null, cur |-> cur, err |-> err]

peek(toks, cur) == toks[cur + 1]

previous(toks, cur) == toks[cur]

isAtEnd(toks, cur) == peek(toks, cur).type = "EOF"

check(toks, cur, type) ==
  IF isAtEnd(toks, cur) THEN FALSE ELSE peek(toks, cur).type = type

\* Parser.advance: the cursor afterwards
advanceToken(toks, cur) == IF ~isAtEnd(toks, cur) THEN cur + 1 ELSE cur

\* Parser.match: the cursor afterwards; it moved iff match returned true
match(toks, cur, types) ==
  IF \E type \in types : check(toks, cur, type) THEN advanceToken(toks, cur) ELSE cur

\* Parser.consume: node is the consumed token
consume(toks, cur, type, message) ==
  IF check(toks, cur, type)
  THEN Ret(previous(toks, advanceToken(toks, cur)), advanceToken(toks, cur))
  ELSE Throw(throwError(peek(toks, cur), message), cur)

literal(toks, cur, value) ==
  [type |-> "LITERAL", value |-> value,
   start |-> previous(toks, cur).line, end |-> previous(toks, cur).column]

IdentifierNode(token) ==
  [type |-> "IDENTIFIER", name |-> token.value,
   start |-> token.line, end |-> token.column]

BinaryNode(operator, left, right) ==
  [type |-> "BINARY_EXPRESSION", operator |-> operator, left |-> left,
   right |-> right, start |-> left.start, end |-> right.end]

\* the six binary levels, loosest first, and the operators each loop accepts
LevelOr == 1
LevelAnd == 2
LevelEquality == 3
LevelComparison == 4
LevelTerm == 5
LevelFactor == 6

LevelOps(level) ==
  CASE level = LevelOr -> {"||"}
    [] level = LevelAnd -> {"&&"}
    [] level = LevelEquality -> {"!=", "=="}
    [] level = LevelComparison -> {">", ">=", "<", "<="}
    [] level = LevelTerm -> {"-", "+"}
    [] level = LevelFactor -> {"/", "*"}

RECURSIVE parseStatement(_, _), parseBlockStatement(_, _), BlockBody(_, _, _),
          parseExpression(_, _), parseAssignment(_, _), BinaryLevel(_, _, _),
          BinaryLoop(_, _, _, _), parseUnary(_, _), parseCall(_, _),
          CallLoop(_, _, _), finishCall(_, _, _), ArgumentLoop(_, _, _),
          parsePrimary(_, _)

\* a throw ends the function that called: the rest of a parse function runs
\* on what a step returned, unless the step threw
Then(r, Rest(_)) == IF r.ok THEN Rest(r) ELSE r

parsePrimary(toks, cur) ==
  IF check(toks, cur, "FALSE") THEN Ret(literal(toks, cur + 1, JsBoolean("false")), cur + 1)
  ELSE IF check(toks, cur, "TRUE") THEN Ret(literal(toks, cur + 1, JsBoolean("true")), cur + 1)
  ELSE IF check(toks, cur, "NULL") THEN Ret(literal(toks, cur + 1, JsNull), cur + 1)
  ELSE IF check(toks, cur, "NUMBER") \/ check(toks, cur, "STRING")
    \* the token's value is a string, for NUMBER tokens too
    THEN Ret(literal(toks, cur + 1, JsString(previous(toks, cur + 1).value)), cur + 1)
  ELSE IF check(toks, cur, "IDENTIFIER")
    THEN Ret(IdentifierNode(previous(toks, cur + 1)), cur + 1)
  ELSE IF check(toks, cur, "LEFT_PAREN")
    THEN Then(parseExpression(toks, cur + 1), LAMBDA e :
         Then(consume(toks, e.cur, "RIGHT_PAREN", "Expected ) after expression"), LAMBDA c :
         Ret(e.node, c.cur)))
  ELSE Throw(Error("Unexpected token"), cur)

\* the do-while loop of finishCall: args so far, cursor at the next argument
ArgumentLoop(toks, cur, args) ==
  Then(parseExpression(toks, cur), LAMBDA e :
  IF check(toks, e.cur, "COMMA")
  THEN ArgumentLoop(toks, e.cur + 1, Append(args, e.node))
  ELSE Ret(Append(args, e.node), e.cur))

finishCall(toks, cur, callee) ==
  Then(IF ~check(toks, cur, "RIGHT_PAREN")
       THEN ArgumentLoop(toks, cur, <<>>)
       ELSE Ret(<<>>, cur), LAMBDA a :
  Then(consume(toks, a.cur, "RIGHT_PAREN", "Expected ) after arguments"), LAMBDA c :
  Ret([type |-> "CALL_EXPRESSION", callee |-> callee, arguments |-> a.node,
       start |-> callee.start, end |-> c.cur], c.cur)))

\* the while (true) loop of parseCall
CallLoop(toks, cur, expr) ==
  IF check(toks, cur, "LEFT_PAREN")
  THEN Then(finishCall(toks, cur + 1, expr), LAMBDA f :
       CallLoop(toks, f.cur, f.node))
  ELSE IF check(toks, cur, "DOT")
  THEN Then(consume(toks, cur + 1, "IDENTIFIER", "Expected property name after ."), LAMBDA c :
       CallLoop(toks, c.cur,
                [type |-> "MEMBER_EXPRESSION", object |-> expr,
                 property |-> IdentifierNode(c.node), computed |-> FALSE,
                 start |-> expr.start, end |-> c.node.column]))
  ELSE Ret(expr, cur)

parseCall(toks, cur) ==
  Then(parsePrimary(toks, cur), LAMBDA p : CallLoop(toks, p.cur, p.node))

parseUnary(toks, cur) ==
  LET cur1 == match(toks, cur, {"OPERATOR"}) IN
  \* match has consumed the operator; the test then looks at the token after it
  IF cur1 # cur /\ peek(toks, cur1).value \in {"!", "-"}
  THEN LET cur2 == advanceToken(toks, cur1)
           operator == previous(toks, cur2)
       IN Then(parseUnary(toks, cur2), LAMBDA right :
          Ret([type |-> "UNARY_EXPRESSION", operator |-> operator.value,
               argument |-> right.node, start |-> operator.line,
               end |-> right.node.end], right.cur))
  ELSE parseCall(toks, cur1)

\* the operand of a level: the next tighter level
Operand(toks, cur, level) ==
  IF level = LevelFactor THEN parseUnary(toks, cur) ELSE BinaryLevel(toks, cur, level + 1)

\* the while loop of a binary level: match(OPERATOR) consumes the operator
\* before its value is compared with the operators of the level
BinaryLoop(toks, cur, level, expr) ==
  LET cur1 == match(toks, cur, {"OPERATOR"}) IN
  IF cur1 # cur /\ previous(toks, cur1).value \in LevelOps(level)
  THEN Then(Operand(toks, cur1, level), LAMBDA right :
       BinaryLoop(toks, right.cur, level,
                  BinaryNode(previous(toks, cur1).value, expr, right.node)))
  ELSE Ret(expr, cur1)

BinaryLevel(toks, cur, level) ==
  Then(Operand(toks, cur, level), LAMBDA first :
  BinaryLoop(toks, first.cur, level, first.node))

parseFactor(toks, cur) == BinaryLevel(toks, cur, LevelFactor)

parseTerm(toks, cur) == BinaryLevel(toks, cur, LevelTerm)

parseComparison(toks, cur) == BinaryLevel(toks, cur, LevelComparison)

parseEquality(toks, cur) == BinaryLevel(toks, cur, LevelEquality)

parseAnd(toks, cur) == BinaryLevel(toks, cur, LevelAnd)

parseOr(toks, cur) == BinaryLevel(toks, cur, LevelOr)

parseAssignment(toks, cur) ==
  Then(parseOr(toks, cur), LAMBDA e :
  LET cur1 == match(toks, e.cur, {"OPERATOR"}) IN
  IF cur1 # e.cur /\ previous(toks, cur1).value = "="
  THEN Then(parseAssignment(toks, cur1), LAMBDA value :
       IF e.node.type = "IDENTIFIER"
       THEN Ret([type |-> "BINARY_EXPRESSION", operator |-> "=",
                 left |-> e.node, right |-> value.node,
                 start |-> e.node.start, end |-> value.node.end], value.cur)
       ELSE Throw(Error("Invalid assignment target"), value.cur))
  ELSE Ret(e.node, cur1))

parseExpression(toks, cur) == parseAssignment(toks, cur)

\* the do-while loop over the parameter names of a function declaration
RECURSIVE ParameterLoop(_, _, _)
ParameterLoop(toks, cur, params) ==
  Then(consume(toks, cur, "IDENTIFIER", "Expected parameter name"), LAMBDA c :
  IF check(toks, c.cur, "COMMA")
  THEN ParameterLoop(toks, c.cur + 1, Append(params, c.node.value))
  ELSE Ret(Append(params, c.node.value), c.cur))

\* the optional return type annotation: the cursor afterwards
ReturnTypeAnnotation(toks, cur) ==
  LET cur1 == match(toks, cur, {"OPERATOR"}) IN
  IF cur1 # cur /\ previous(toks, cur1).value = ":"
  THEN IF check(toks, cur1, "IDENTIFIER")
       THEN LET cur2 == advanceToken(toks, cur1) IN
            IF check(toks, cur2, "LEFT_BRACKET")
            THEN LET cur3 == advanceToken(toks, cur2) IN
                 IF check(toks, cur3, "RIGHT_BRACKET")
                 THEN advanceToken(toks, cur3)
                 ELSE cur3
            ELSE cur2
       ELSE cur1
  ELSE cur1

parseFunctionDeclaration(toks, cur) ==
  Then(consume(toks, cur, "FUNCTION", "Expected function keyword"), LAMBDA kw :
  Then(consume(toks, kw.cur, "IDENTIFIER", "Expected function name"), LAMBDA name :
  Then(consume(toks, name.cur, "LEFT_PAREN", "Expected ( after function name"), LAMBDA lp :
  Then(IF ~check(toks, lp.cur, "RIGHT_PAREN")
       THEN ParameterLoop(toks, lp.cur, <<>>)
       ELSE Ret(<<>>, lp.cur), LAMBDA params :
  Then(consume(toks, params.cur, "RIGHT_PAREN", "Expected ) after parameters"), LAMBDA rp :
  Then(parseBlockStatement(toks, ReturnTypeAnnotation(toks, rp.cur)), LAMBDA body :
  Ret([type |-> "FUNCTION_DECLARATION", name |-> name.node.value,
       params |-> params.node, body |-> body.node,
       start |-> cur, end |-> body.cur], body.cur)))))))

parseVariableDeclaration(toks, cur) ==
  LET cur1 == advanceToken(toks, cur)
      kind == previous(toks, cur1).value
  IN
  Then(consume(toks, cur1, "IDENTIFIER", "Expected variable name"), LAMBDA name :
  LET cur2 == match(toks, name.cur, {"OPERATOR"}) IN
  Then(IF cur2 # name.cur /\ previous(toks, cur2).value = "="
       THEN parseExpression(toks, cur2)
       ELSE Ret(Null, cur2), LAMBDA init :
  Then(consume(toks, init.cur, "SEMICOLON", "Expected ; after variable declaration"),
       LAMBDA semi :
  Ret([type |-> "VARIABLE_DECLARATION", kind |-> kind, name |-> name.node.value,
       init |-> init.node, start |-> cur, end |-> semi.cur], semi.cur))))

parseIfStatement(toks, cur) ==
  Then(consume(toks, cur, "IF", "Expected if keyword"), LAMBDA kw :
  Then(consume(toks, kw.cur, "LEFT_PAREN", "Expected ( after if"), LAMBDA lp :
  Then(parseExpression(toks, lp.cur), LAMBDA test :
  Then(consume(toks, test.cur, "RIGHT_PAREN", "Expected ) after if condition"), LAMBDA rp :
  Then(parseStatement(toks, rp.cur), LAMBDA consequent :
  LET cur1 == match(toks, consequent.cur, {"ELSE"}) IN
  Then(IF cur1 # consequent.cur
       THEN parseStatement(toks, cur1)
       ELSE Ret(Null, cur1), LAMBDA alternate :
  Ret([type |-> "IF_STATEMENT", test |-> test.node, consequent |-> consequent.node,
       alternate |-> alternate.node, start |-> cur, end |-> alternate.cur],
      alternate.cur)))))))

parseWhileStatement(toks, cur) ==
  Then(consume(toks, cur, "WHILE", "Expected while keyword"), LAMBDA kw :
  Then(consume(toks, kw.cur, "LEFT_PAREN", "Expected ( after while"), LAMBDA lp :
  Then(parseExpression(toks, lp.cur), LAMBDA test :
  Then(consume(toks, test.cur, "RIGHT_PAREN", "Expected ) after while condition"), LAMBDA rp :
  Then(parseStatement(toks, rp.cur), LAMBDA body :
  Ret([type |-> "WHILE_STATEMENT", test |-> test.node, body |-> body.node,
       start |-> cur, end |-> body.cur], body.cur))))))

\* the initializer clause of a for statement
ForInit(toks, cur) ==
  IF ~check(toks, cur, "SEMICOLON")
  THEN LET cur1 == match(toks, cur, {"VAR", "LET", "CONST"}) IN
       IF cur1 # cur
       \* the keyword is already consumed when parseVariableDeclaration starts
       THEN parseVariableDeclaration(toks, cur1)
       ELSE Then(parseExpression(toks, cur), LAMBDA e :
            Then(consume(toks, e.cur, "SEMICOLON",
                         "Expected ; after for loop initializer"), LAMBDA semi :
            Ret(e.node, semi.cur)))
  ELSE Ret(Null, cur)

parseForStatement(toks, cur) ==
  Then(consume(toks, cur, "FOR", "Expected for keyword"), LAMBDA kw :
  Then(consume(toks, kw.cur, "LEFT_PAREN", "Expected ( after for"), LAMBDA lp :
  Then(ForInit(toks, lp.cur), LAMBDA init :
  Then(IF ~check(toks, init.cur, "SEMICOLON")
       THEN parseExpression(toks, init.cur)
       ELSE Ret(Null, init.cur), LAMBDA test :
  Then(consume(toks, test.cur, "SEMICOLON", "Expected ; after for loop condition"),
       LAMBDA semi :
  Then(IF ~check(toks, semi.cur, "RIGHT_PAREN")
       THEN parseExpression(toks, semi.cur)
       ELSE Ret(Null, semi.cur), LAMBDA update :
  Then(consume(toks, update.cur, "RIGHT_PAREN", "Expected ) after for loop clauses"),
       LAMBDA rp :
  Then(parseStatement(toks, rp.cur), LAMBDA body :
  Ret([type |-> "FOR_STATEMENT", init |-> init.node, test |-> test.node,
       update |-> update.node, body |-> body.node,
       start |-> cur, end |-> body.cur], body.cur)))))))))

parseReturnStatement(toks, cur) ==
  Then(consume(toks, cur, "RETURN", "Expected return keyword"), LAMBDA kw :
  Then(IF ~check(toks, kw.cur, "SEMICOLON")
       THEN parseExpression(toks, kw.cur)
       ELSE Ret(Null, kw.cur), LAMBDA argument :
  Then(consume(toks, argument.cur, "SEMICOLON", "Expected ; after return statement"),
       LAMBDA semi :
  Ret([type |-> "RETURN_STATEMENT", argument |-> argument.node,
       start |-> cur, end |-> semi.cur], semi.cur))))

\* the statement loop of parseBlockStatement
BlockBody(toks, cur, body) ==
  IF ~check(toks, cur, "RIGHT_BRACE") /\ ~isAtEnd(toks, cur)
  THEN Then(parseStatement(toks, cur), LAMBDA statement :
       BlockBody(toks, statement.cur, Append(body, statement.node)))
  ELSE Ret(body, cur)

parseBlockStatement(toks, cur) ==
  Then(consume(toks, cur, "LEFT_BRACE", "Expected {"), LAMBDA lb :
  Then(BlockBody(toks, lb.cur, <<>>), LAMBDA body :
  Then(consume(toks, body.cur, "RIGHT_BRACE", "Expected }"), LAMBDA rb :
  Ret([type |-> "BLOCK_STATEMENT", body |-> body.node,
       start |-> cur, end |-> rb.cur], rb.cur))))

\* an expression statement that is empty, and returned, at the end of input
parseExpressionStatement_emptyAtEnd(toks, cur) ==
  IF isAtEnd(toks, cur)
  THEN Ret([type |-> "EXPRESSION_STATEMENT", expression |-> Null,
            start |-> cur, end |-> cur], cur)
  ELSE Then(parseExpression(toks, cur), LAMBDA expression :
       Then(consume(toks, expression.cur, "SEMICOLON", "Expected ; after expression"),
            LAMBDA semi :
       Ret([type |-> "EXPRESSION_STATEMENT", expression |-> expression.node,
            start |-> cur, end |-> semi.cur], semi.cur)))

parseExpressionStatement(toks, cur) ==
  Then(parseExpression(toks, cur), LAMBDA expression :
  Then(consume(toks, expression.cur, "SEMICOLON", "Expected ; after expression"),
       LAMBDA semi :
  Ret([type |-> "EXPRESSION_STATEMENT", expression |-> expression.node,
       start |-> cur, end |-> semi.cur], semi.cur)))

\* the field loop of parseTypeDeclaration
RECURSIVE TypeFields(_, _, _)
TypeFields(toks, cur, fields) ==
  IF ~check(toks, cur, "RIGHT_BRACE") /\ ~isAtEnd(toks, cur)
  THEN Then(consume(toks, cur, "IDENTIFIER", "Expected field name in type"),
            LAMBDA fieldName :
       Then(consume(toks, fieldName.cur, "OPERATOR",
                    "Expected : after field name '" \o fieldName.node.value \o "'"),
            LAMBDA colon :
       Then(consume(toks, colon.cur, "IDENTIFIER",
                    "Expected type for field '" \o fieldName.node.value \o "'"),
            LAMBDA typeToken :
       TypeFields(toks,
                  IF check(toks, typeToken.cur, "SEMICOLON")
                  THEN advanceToken(toks, typeToken.cur) ELSE typeToken.cur,
                  Append(fields, [name |-> fieldName.node.value,
                                  valueType |-> typeToken.node.value,
                                  line |-> fieldName.node.line,
                                  column |-> fieldName.node.column])))))
  ELSE Ret(fields, cur)

parseTypeDeclaration(toks, cur) ==
  Then(consume(toks, cur, "IDENTIFIER", "Expected \"type\" keyword"), LAMBDA kw :
  IF kw.node.value # "type"
  THEN Throw(throwError(kw.node, "Expected \"type\" keyword"), kw.cur) ELSE
  Then(consume(toks, kw.cur, "IDENTIFIER", "Expected type name"), LAMBDA name :
  Then(consume(toks, name.cur, "LEFT_BRACE", "Expected { after type name"), LAMBDA lb :
  Then(TypeFields(toks, lb.cur, <<>>), LAMBDA fields :
  Then(consume(toks, fields.cur, "RIGHT_BRACE", "Expected } after type fields"), LAMBDA rb :
  Ret([type |-> "TYPE_DECLARATION", name |-> name.node.value, fields |-> fields.node,
       start |-> cur, end |-> rb.cur], rb.cur))))))

parseStatement(toks, cur) ==
  LET token == peek(toks, cur) IN
  CASE token.type = "FUNCTION" -> parseFunctionDeclaration(toks, cur)
    [] token.type \in {"VAR", "LET", "CONST"} -> parseVariableDeclaration(toks, cur)
    [] token.type = "IF" -> parseIfStatement(toks, cur)
    [] token.type = "WHILE" -> parseWhileStatement(toks, cur)
    [] token.type = "FOR" -> parseForStatement(toks, cur)
    [] token.type = "RETURN" -> parseReturnStatement(toks, cur)
    [] token.type = "LEFT_BRACE" -> parseBlockStatement(toks, cur)
    [] token.type = "IDENTIFIER" /\ token.value = "type" -> parseTypeDeclaration(toks, cur)
    [] OTHER -> parseExpressionStatement(toks, cur)

\* the statement loop of Parser.parse
RECURSIVE ProgramBody(_, _, _)
ProgramBody(toks, cur, body) ==
  IF ~isAtEnd(toks, cur)
  THEN Then(parseStatement(toks, cur), LAMBDA statement :
       ProgramBody(toks, statement.cur, Append(body, statement.node)))
  ELSE Ret(body, cur)

\* Parser.parse: the Program node, or the error thrown
parse(toks) ==
  Then(ProgramBody(toks, 0, <<>>), LAMBDA body :
  Ret([type |-> "PROGRAM", body |-> body.node, start |-> 0,
       end |-> toks[Len(toks)].column], body.cur))

\* ------------------------------------------------------------------------
\* Source texts
\* ------------------------------------------------------------------------
\* 1 + 2 * 3;
SrcAddMul ==
  <<"1", " ", "+", " ", "2", " ", "*", " ", "3", ";">>

\* 1 * 2 + 3;
SrcMulAdd ==
  <<"1", " ", "*", " ", "2", " ", "+", " ", "3", ";">>

\* 1 - 2 - 3;
SrcSubSub ==
  <<"1", " ", "-", " ", "2", " ", "-", " ", "3", ";">>

\* 1 * 2 * 3;
SrcMulMul ==
  <<"1", " ", "*", " ", "2", " ", "*", " ", "3", ";">>

\* a / b * c;
SrcDivMul ==
  <<"a", " ", "/", " ", "b", " ", "*", " ", "c", ";">>

\* a == b == c;
SrcEqEq ==
  <<"a", " ", "=", "=", " ", "b", " ", "=", "=", " ", "c", ";">>

\* a < b < c;
SrcLtLt ==
  <<"a", " ", "<", " ", "b", " ", "<", " ", "c", ";">>

\* let x = 1 + 2;
SrcLet ==
  <<"l", "e", "t", " ", "x", " ", "=", " ", "1", " ", "+", " ", "2", ";">>

\* let x = 1;
SrcLetOne ==
  <<"l", "e", "t", " ", "x", " ", "=", " ", "1", ";">>

\* function add(a: number, b: number): number { return a + b; }
SrcAdd ==
  <<"f", "u", "n", "c", "t", "i", "o", "n", " ", "a", "d", "d", "(", "a",
  ":", " ", "n", "u", "m", "b", "e", "r", ",", " ", "b", ":", " ", "n", "u",
  "m", "b", "e", "r", ")", ":", " ", "n", "u", "m", "b", "e", "r", " ", "{",
  " ", "r", "e", "t", "u", "r", "n", " ", "a", " ", "+", " ", "b", ";", " ",
  "}">>

\* function f(a, b) { return a; }
SrcFn ==
  <<"f", "u", "n", "c", "t", "i", "o", "n", " ", "f", "(", "a", ",", " ",
  "b", ")", " ", "{", " ", "r", "e", "t", "u", "r", "n", " ", "a", ";", " ",
  "}">>

\* ;
SrcSemi ==
  <<";">>

\* (1;
SrcParen ==
  <<"(", "1", ";">>

\* f(a).b;
SrcCall ==
  <<"f", "(", "a", ")", ".", "b", ";">>

\* if (a) { b; } else c;
SrcIf ==
  <<"i", "f", " ", "(", "a", ")", " ", "{", " ", "b", ";", " ", "}", " ",
  "e", "l", "s", "e", " ", "c", ";">>

\* for (;;) a;
SrcFor ==
  <<"f", "o", "r", " ", "(", ";", ";", ")", " ", "a", ";">>

\* while (a) b;
SrcWhile ==
  <<"w", "h", "i", "l", "e", " ", "(", "a", ")", " ", "b", ";">>

\* type T { a: b; }
SrcType ==
  <<"t", "y", "p", "e", " ", "T", " ", "{", " ", "a", ":", " ", "b", ";",
  " ", "}">>

\* -a;
SrcNeg ==
  <<"-", "a", ";">>

\* let count = 5;
SrcCount ==
  <<"l", "e", "t", " ", "c", "o", "u", "n", "t", " ", "=", " ", "5", ";">>

\* 1;
SrcOne ==
  <<"1", ";">>

\* "1";
SrcQuotedOne ==
  <<DQ, "1", DQ, ";">>

\* 1 = 2;
SrcAssign ==
  <<"1", " ", "=", " ", "2", ";">>

\* for (let a b;;) c;
SrcForLet ==
  <<"f", "o", "r", " ", "(", "l", "e", "t", " ", "a", " ", "b", ";", ";", ")", " ", "c", ";">>

\* for (let i = 0;;) a;
SrcForInit ==
  <<"f", "o", "r", " ", "(", "l", "e", "t", " ", "i", " ", "=", " ", "0", ";", ";", ")", " ", "a", ";">>

\* 1 + ;
SrcDangling ==
  <<"1", " ", "+", " ", ";">>

\* - -a;
SrcNegNeg ==
  <<"-", " ", "-", "a", ";">>

\* !a;
SrcNot ==
  <<"!", "a", ";">>

\* +a;
SrcPlus ==
  <<"+", "a", ";">>

\* the multi-character operators of the table of isOperator
MultiCharOperators ==
  {<<"=", "=">>,
   <<"!", "=">>,
   <<"<", "=">>,
   <<">", "=">>,
   <<"&", "&">>,
   <<"|", "|">>,
   <<"+", "=">>,
   <<"-", "=">>,
   <<"*", "=">>,
   <<"/", "=">>,
   <<"%", "=">>,
   <<"+", "+">>,
   <<"-", "-">>}

\* a multi-character operator alone, and between two operands
OperatorSources ==
  MultiCharOperators \cup {<<"a">> \o op \o <<"b">> : op \in MultiCharOperators}

\* the words fn, macro, import, export, api and module
StatementWords ==
  {<<"f", "n">>,
   <<"m", "a", "c", "r", "o">>,
   <<"i", "m", "p", "o", "r", "t">>,
   <<"e", "x", "p", "o", "r", "t">>,
   <<"a", "p", "i">>,
   <<"m", "o", "d", "u", "l", "e">>}

\* a statement that is one such word: `import;`
WordSources == {word \o <<";">> : word \in StatementWords}

\* { a; } b;
SrcBlockThen == <<"{", " ", "a", ";", " ", "}", " ", "b", ";">>

NamedSources ==
  {SrcBlockThen,
   SrcAddMul,
   SrcMulAdd,
   SrcSubSub,
   SrcMulMul,
   SrcDivMul,
   SrcEqEq,
   SrcLtLt,
   SrcLet,
   SrcLetOne,
   SrcAdd,
   SrcFn,
   SrcSemi,
   SrcParen,
   SrcCall,
   SrcIf,
   SrcFor,
   SrcWhile,
   SrcType,
   SrcNeg,
   SrcAssign,
   SrcForLet,
   SrcForInit,
   SrcDangling,
   SrcNegNeg,
   SrcNot,
   SrcPlus,
   SrcQuotedOne,
   SrcCount}
    \cup OperatorSources \cup WordSources

\* every text of at most MaxSrcLen characters over an alphabet with one
\* character of each class the scanner distinguishes
LexAlphabet == {"1", "a", " ", NL, "/", "*", DQ, BS, ".", "=", "&", ";"}

BoundedSources == UNION {[1..n -> LexAlphabet] : n \in 0..MaxSrcLen}

Sources == BoundedSources \cup NamedSources

\* ------------------------------------------------------------------------
\* ASTConverter
\* ------------------------------------------------------------------------
convertLocation(start, end) ==
  [start |-> [line |-> 1, column |-> start], end |-> [line |-> 1, column |-> end]]

RECURSIVE convertStatement(_), convertExpression(_)

convertIdentifier(n) ==
  [type |-> "IDENTIFIER", name |-> n.name, location |-> convertLocation(n.start, n.end)]

convertLiteral(n) ==
  [type |-> "LITERAL", value |-> n.value, location |-> convertLocation(n.start, n.end)]

convertBinaryExpression(n) ==
  [type |-> "BINARY_EXPRESSION", operator |-> n.operator,
   left |-> convertExpression(n.left), right |-> convertExpression(n.right),
   location |-> convertLocation(n.start, n.end)]

convertUnaryExpression(n) ==
  [type |-> "UNARY_EXPRESSION", operator |-> n.operator,
   argument |-> convertExpression(n.argument),
   location |-> convertLocation(n.start, n.end)]

convertCallExpression(n) ==
  [type |-> "CALL_EXPRESSION", callee |-> convertExpression(n.callee),
   arguments |-> [i \in 1..Len(n.arguments) |-> convertExpression(n.arguments[i])],
   location |-> convertLocation(n.start, n.end)]

convertMemberExpression(n) ==
  [type |-> "MEMBER_EXPRESSION", object |-> convertExpression(n.object),
   property |-> convertExpression(n.property), computed |-> n.computed,
   location |-> convertLocation(n.start, n.end)]

convertExpression(n) ==
  CASE n.type = "BINARY_EXPRESSION" -> convertBinaryExpression(n)
    [] n.type = "UNARY_EXPRESSION" -> convertUnaryExpression(n)
    [] n.type = "CALL_EXPRESSION" -> convertCallExpression(n)
    [] n.type = "MEMBER_EXPRESSION" -> convertMemberExpression(n)
    [] n.type = "IDENTIFIER" -> convertIdentifier(n)
    [] n.type = "LITERAL" -> convertLiteral(n)

\* cst ? convertExpression(cst) : null
ConvertOptional(n) == IF n = Null THEN Null ELSE convertExpression(n)

convertBlockStatement(n) ==
  [type |-> "BLOCK_STATEMENT",
   body |-> [i \in 1..Len(n.body) |-> convertStatement(n.body[i])],
   location |-> convertLocation(n.start, n.end)]

convertFunctionDeclaration(n) ==
  [type |-> "FUNCTION_DECLARATION", name |-> n.name, params |-> n.params,
   body |-> convertBlockStatement(n.body),
   location |-> convertLocation(n.start, n.end)]

convertVariableDeclaration(n) ==
  [type |-> "VARIABLE_DECLARATION", kind |-> n.kind, name |-> n.name,
   init |-> ConvertOptional(n.init),
   location |-> convertLocation(n.start, n.end)]

convertExpressionStatement(n) ==
  [type |-> "EXPRESSION_STATEMENT", expression |-> convertExpression(n.expression),
   location |-> convertLocation(n.start, n.end)]

convertIfStatement(n) ==
  [type |-> "IF_STATEMENT", test |-> convertExpression(n.test),
   consequent |-> convertStatement(n.consequent),
   alternate |-> IF n.alternate = Null THEN Null ELSE convertStatement(n.alternate),
   location |-> convertLocation(n.start, n.end)]

convertWhileStatement(n) ==
  [type |-> "WHILE_STATEMENT", test |-> convertExpression(n.test),
   body |-> convertStatement(n.body),
   location |-> convertLocation(n.start, n.end)]

convertStatementOrExpression(n) ==
  IF n.type = "VARIABLE_DECLARATION" THEN convertVariableDeclaration(n)
  ELSE IF n.type = "EXPRESSION_STATEMENT" THEN convertExpression(n.expression)
  ELSE convertExpression(n)

convertForStatement(n) ==
  [type |-> "FOR_STATEMENT",
   init |-> IF n.init = Null THEN Null ELSE convertStatementOrExpression(n.init),
   test |-> ConvertOptional(n.test), update |-> ConvertOptional(n.update),
   body |-> convertStatement(n.body),
   location |-> convertLocation(n.start, n.end)]

convertReturnStatement(n) ==
  [type |-> "RETURN_STATEMENT", argument |-> ConvertOptional(n.argument),
   location |-> convertLocation(n.start, n.end)]

convertTypeDeclaration(n) ==
  [type |-> "TYPE_DECLARATION", name |-> n.name, fields |-> n.fields,
   location |-> convertLocation(n.start, n.end)]

convertStatement(n) ==
  CASE n.type = "FUNCTION_DECLARATION" -> convertFunctionDeclaration(n)
    [] n.type = "VARIABLE_DECLARATION" -> convertVariableDeclaration(n)
    [] n.type = "EXPRESSION_STATEMENT" -> convertExpressionStatement(n)
    [] n.type = "IF_STATEMENT" -> convertIfStatement(n)
    [] n.type = "WHILE_STATEMENT" -> convertWhileStatement(n)
    [] n.type = "FOR_STATEMENT" -> convertForStatement(n)
    [] n.type = "RETURN_STATEMENT" -> convertReturnStatement(n)
    [] n.type = "BLOCK_STATEMENT" -> convertBlockStatement(n)
    [] n.type = "TYPE_DECLARATION" -> convertTypeDeclaration(n)

convertProgram(n) ==
  [type |-> "PROGRAM",
   body |-> [i \in 1..Len(n.body) |-> convertStatement(n.body[i])],
   location |-> convertLocation(n.start, n.end)]

\* ------------------------------------------------------------------------
\* Tree shape shared by the passes.  A pass that meets a node type it has no
\* case for copies the node key by key, recursing into every object and every
\* array element: Schema gives, in the order the keys were inserted, the keys
\* of a node type that hold a node or an array of nodes.  All other keys hold
\* primitives or plain data, which the copy leaves equal.
\* ------------------------------------------------------------------------
Undefined == [type |-> "undefined"]

\* !node
Falsy(node) == node = Null \/ node = Undefined

Schema(type) ==
  CASE type \in {"PROGRAM", "Program", "BLOCK_STATEMENT", "BlockStatement"} ->
         <<<<"body", "list">>>>
    [] type \in {"FUNCTION_DECLARATION", "FunctionDeclaration"} ->
         <<<<"body", "node">>>>
    [] type \in {"VARIABLE_DECLARATION", "VariableDeclaration"} ->
         <<<<"init", "node">>>>
    [] type \in {"EXPRESSION_STATEMENT", "ExpressionStatement"} ->
         <<<<"expression", "node">>>>
    [] type \in {"IF_STATEMENT", "IfStatement"} ->
         <<<<"test", "node">>, <<"consequent", "node">>, <<"alternate", "node">>>>
    [] type \in {"WHILE_STATEMENT", "WhileStatement"} ->
         <<<<"test", "node">>, <<"body", "node">>>>
    [] type \in {"FOR_STATEMENT", "ForStatement"} ->
         <<<<"init", "node">>, <<"test", "node">>, <<"update", "node">>,
           <<"body", "node">>>>
    [] type \in {"RETURN_STATEMENT", "ReturnStatement"} ->
         <<<<"argument", "node">>>>
    [] type \in {"BINARY_EXPRESSION", "BinaryExpression"} ->
         <<<<"left", "node">>, <<"right", "node">>>>
    [] type \in {"UNARY_EXPRESSION", "UnaryExpression"} ->
         <<<<"argument", "node">>>>
    [] type \in {"CALL_EXPRESSION", "CallExpression"} ->
         <<<<"callee", "node">>, <<"arguments", "list">>>>
    [] type \in {"MEMBER_EXPRESSION", "MemberExpression"} ->
         <<<<"object", "node">>, <<"property", "node">>>>
    [] OTHER -> <<>>

\* { ...node, key: value }
WithField(node, key, value) ==
  [k \in DOMAIN node \cup {key} |-> IF k = key THEN value ELSE node[k]]

\* node.key, undefined when the node has no such key
Field(node, key) == IF key \in DOMAIN node THEN node[key] ELSE Undefined

\* ------------------------------------------------------------------------
\* VariableRenamerMiddleware: the state of one run of process is
\* [variableMap, counter]; processNode yields [node, st]
\* ------------------------------------------------------------------------
\* the value of a step is handed to the steps after it
Bind(r, Rest(_)) == Rest(r)

RenamerExempt == {"i", "j", "k", "index", "key", "value"}

generateUniqueName(originalName, st) ==
  IF originalName \in DOMAIN st.variableMap
  THEN [name |-> st.variableMap[originalName], st |-> st]
  ELSE IF originalName \in RenamerExempt
  THEN [name |-> originalName, st |-> st]
  ELSE LET newName == "_" \o originalName \o "_" \o ToString(st.counter)
       IN [name |-> newName,
           st |-> [variableMap |-> (originalName :> newName) @@ st.variableMap,
                   counter |-> st.counter + 1]]

RECURSIVE renameNode(_, _), RenameList(_, _, _), RenameKeys(_, _, _)

\* value.map(item => processNode(item))
RenameList(list, st, done) ==
  IF Len(done) = Len(list) THEN [node |-> done, st |-> st]
  ELSE Bind(renameNode(list[Len(done) + 1], st), LAMBDA r :
       RenameList(list, r.st, Append(done, r.node)))

\* the properties an object literal of processNode sets, in order; a key comes
\* with the way its value is computed: "node" is processNode(node.key), "opt"
\* is node.key ? processNode(node.key) : null, "list" maps processNode
RenameKeys(node, st, keys) ==
  IF keys = <<>> THEN [node |-> node, st |-> st]
  ELSE LET key == keys[1][1]
           how == keys[1][2]
       IN Bind(IF how = "list" THEN RenameList(node[key], st, <<>>)
               ELSE IF how = "opt" /\ Falsy(Field(node, key)) THEN [node |-> Null, st |-> st]
               ELSE renameNode(Field(node, key), st), LAMBDA r :
          RenameKeys(WithField(node, key, r.node), r.st, Tail(keys)))

\* the default branch: every property that holds a node or an array of nodes
\* is processed, the others are copied
SchemaKeys(node) ==
  SelectSeq(Schema(node.type), LAMBDA k : k[1] \in DOMAIN node)

\* processNode of VariableRenamerMiddleware.process; no name of the trees
\* holds a '.', so the test !node.name.includes('.') is true
renameNode(node, st) ==
  IF Falsy(node) THEN [node |-> node, st |-> st]
  ELSE CASE node.type = "VariableDeclaration" ->
         Bind(generateUniqueName(node.name, st), LAMBDA g :
         RenameKeys(WithField(node, "name", g.name), g.st, <<<<"init", "opt">>>>))
    [] node.type = "Identifier" ->
         [node |-> IF node.name \in DOMAIN st.variableMap
                   THEN WithField(node, "name", st.variableMap[node.name])
                   ELSE node,
          st |-> st]
    [] node.type = "FunctionDeclaration" ->
         RenameKeys(node, st, <<<<"body", "node">>>>)
    [] node.type = "CallExpression" ->
         RenameKeys(node, st, <<<<"callee", "node">>, <<"arguments", "list">>>>)
    [] node.type = "MemberExpression" ->
         RenameKeys(node, st, <<<<"object", "node">>, <<"property", "node">>>>)
    [] node.type \in {"BinaryExpression", "UnaryExpression"} ->
         RenameKeys(node, st, <<<<"left", "opt">>, <<"right", "opt">>,
                                <<"argument", "opt">>>>)
    [] node.type \in {"BlockStatement", "Program"} ->
         RenameKeys(node, st, <<<<"body", "list">>>>)
    [] node.type = "IfStatement" ->
         RenameKeys(node, st, <<<<"test", "node">>, <<"consequent", "node">>,
                                <<"alternate", "opt">>>>)
    [] node.type \in {"WhileStatement", "ForStatement"} ->
         RenameKeys(node, st, <<<<"test", "opt">>, <<"body", "node">>,
                                <<"init", "opt">>, <<"update", "opt">>>>)
    [] node.type = "ReturnStatement" ->
         RenameKeys(node, st, <<<<"argument", "opt">>>>)
    [] node.type = "ExpressionStatement" ->
         RenameKeys(node, st, <<<<"expression", "node">>>>)
    [] OTHER -> RenameKeys(node, st, SchemaKeys(node))

RenamerWarning(size) ==
  [code |-> "VARIABLES_RENAMED",
   message |-> "Renamed " \o ToString(size) \o " variables to avoid conflicts"]

\* VariableRenamerMiddleware.process: the tree returned and the warnings pushed
VariableRenamerProcess(tree) ==
  Bind(renameNode(tree, [variableMap |-> <<>>, counter |-> 0]), LAMBDA r :
  [ast |-> r.node,
   warnings |-> IF Cardinality(DOMAIN r.st.variableMap) > 0
                THEN <<RenamerWarning(Cardinality(DOMAIN r.st.variableMap))>>
                ELSE <<>>])

\* ------------------------------------------------------------------------
\* TypeCheckerMiddleware
\* ------------------------------------------------------------------------
getLiteralType(value) ==
  IF value.t = "number" THEN "number"
  ELSE IF value.t = "string" THEN "string"
  ELSE IF value.t = "boolean" THEN "boolean"
  ELSE IF value = JsNull THEN "null"
  ELSE "any"

getBinaryResultType(leftType, rightType, operator) ==
  CASE operator = "+" ->
         IF leftType = "string" \/ rightType = "string" THEN "string" ELSE "number"
    [] operator \in {"-", "*", "/", "%"} -> "number"
    [] operator \in {"==", "!=", "===", "!=="} -> "boolean"
    [] operator \in {"&&", "||"} -> "boolean"
    [] OTHER -> "any"

getUnaryResultType(argType, operator) ==
  CASE operator = "!" -> "boolean"
    [] operator = "-" -> "number"
    [] operator = "+" -> "number"
    [] OTHER -> "any"

\* isValidBinaryOperation that accepts every operand type
isValidBinaryOperation_lenient(leftType, rightType, operator) ==
  TRUE

isValidBinaryOperation(leftType, rightType, operator) ==
  CASE operator = "+" -> TRUE
    [] operator \in {"-", "*", "/", "%"} -> leftType = "number" /\ rightType = "number"
    [] operator \in {"==", "!=", "===", "!=="} -> TRUE
    [] operator \in {"<", "<=", ">", ">="} -> leftType = "number" /\ rightType = "number"
    [] operator \in {"&&", "||"} -> leftType = "boolean" /\ rightType = "boolean"
    [] OTHER -> TRUE

isValidUnaryOperation(argType, operator) ==
  CASE operator = "!" -> argType = "boolean"
    [] operator \in {"-", "+"} -> argType = "number"
    [] OTHER -> TRUE

RECURSIVE inferType(_)
inferType(node) ==
  IF Falsy(node) THEN "any"
  ELSE CASE node.type = "Literal" -> getLiteralType(node.value)
         [] node.type = "Identifier" -> "any"
         [] node.type = "BinaryExpression" ->
              getBinaryResultType(inferType(node.left), inferType(node.right),
                                  node.operator)
         [] node.type = "UnaryExpression" ->
              getUnaryResultType(inferType(node.argument), node.operator)
         [] node.type = "CallExpression" -> "any"
         [] node.type = "MemberExpression" -> "any"
         [] OTHER -> "any"

\* the state of one run of process: the type map and the local error list
TypeError(message) == [code |-> "TYPE_ERROR", message |-> message]

PushError(st, message) == [st EXCEPT !.errors = Append(@, message)]

\* processNode yields [node, st]
RECURSIVE processNode(_, _), ProcessList(_, _, _), ProcessKeys(_, _, _)

\* value.map(item => processNode(item))
ProcessList(list, st, done) ==
  IF Len(done) = Len(list) THEN [node |-> done, st |-> st]
  ELSE LET r == processNode(list[Len(done) + 1], st)
       IN ProcessList(list, r.st, Append(done, r.node))

\* the keys named by a schema, processed in order on a copy of the node
ProcessKeys(node, st, keys) ==
  IF keys = <<>> THEN [node |-> node, st |-> st]
  ELSE LET key == keys[1][1]
           r == IF key \notin DOMAIN node THEN [node |-> Undefined, st |-> st]
                ELSE IF keys[1][2] = "list" THEN ProcessList(node[key], st, <<>>)
                ELSE processNode(node[key], st)
       IN IF key \notin DOMAIN node THEN ProcessKeys(node, st, Tail(keys))
          ELSE ProcessKeys([node EXCEPT ![key] = r.node], r.st, Tail(keys))

\* node.key ? processNode(node.key) : null
ProcessOrNull(node, key, st) ==
  IF Falsy(Field(node, key)) THEN [node |-> Null, st |-> st]
  ELSE processNode(node[key], st)

processNode(node, st) ==
  IF Falsy(node) THEN [node |-> node, st |-> st]
  ELSE CASE node.type = "VariableDeclaration" ->
         LET varType == inferType(Field(node, "init"))
             st1 == [st EXCEPT !.typeMap = (node.name :> varType) @@ @]
             initType == inferType(Field(node, "init"))
             st2 == IF /\ ~Falsy(Field(node, "init"))
                       /\ varType # "any" /\ initType # "any" /\ varType # initType
                    THEN PushError(st1, "Type mismatch: cannot assign " \o initType
                                        \o " to " \o varType \o " variable '"
                                        \o node.name \o "'")
                    ELSE st1
             init == ProcessOrNull(node, "init", st2)
         IN [node |-> WithField(WithField(node, "inferredType", varType),
                                "init", init.node),
             st |-> init.st]
    [] node.type = "BinaryExpression" ->
         LET leftType == inferType(node.left)
             rightType == inferType(node.right)
             resultType == getBinaryResultType(leftType, rightType, node.operator)
             st1 == IF ~isValidBinaryOperation(leftType, rightType, node.operator)
                    THEN PushError(st, "Invalid operation: " \o leftType \o " "
                                       \o node.operator \o " " \o rightType)
                    ELSE st
             left == processNode(node.left, st1)
             right == processNode(node.right, left.st)
         IN [node |-> WithField([node EXCEPT !.left = left.node,
                                             !.right = right.node],
                                "inferredType", resultType),
             st |-> right.st]
    [] node.type = "UnaryExpression" ->
         LET argType == inferType(node.argument)
             st1 == IF ~isValidUnaryOperation(argType, node.operator)
                    THEN PushError(st, "Invalid unary operation: " \o node.operator
                                       \o " " \o argType)
                    ELSE st
             argument == processNode(node.argument, st1)
         IN [node |-> WithField([node EXCEPT !.argument = argument.node],
                                "inferredType", getUnaryResultType(argType, node.operator)),
             st |-> argument.st]
    [] node.type = "CallExpression" ->
         LET calleeType == inferType(node.callee)
             st1 == IF calleeType # "function" /\ calleeType # "any"
                    THEN PushError(st, "Cannot call non-function type: " \o calleeType)
                    ELSE st
             callee == processNode(node.callee, st1)
             arguments == ProcessList(node.arguments, callee.st, <<>>)
         IN [node |-> WithField([node EXCEPT !.callee = callee.node,
                                             !.arguments = arguments.node],
                                "inferredType", "any"),
             st |-> arguments.st]
    [] node.type = "Identifier" ->
         [node |-> WithField(node, "inferredType",
                             IF node.name \in DOMAIN st.typeMap
                             THEN st.typeMap[node.name] ELSE "any"),
          st |-> st]
    [] node.type = "Literal" ->
         [node |-> WithField(node, "inferredType", getLiteralType(node.value)),
          st |-> st]
    [] node.type = "FunctionDeclaration" ->
         LET st1 == [st EXCEPT !.typeMap = (node.name :> "function") @@ @]
             body == processNode(node.body, st1)
         IN [node |-> [node EXCEPT !.body = body.node], st |-> body.st]
    [] node.type = "ReturnStatement" ->
         LET argument == ProcessOrNull(node, "argument", st)
         IN [node |-> WithField(node, "argument", argument.node), st |-> argument.st]
    [] node.type \in {"IfStatement", "WhileStatement", "ForStatement"} ->
         LET testType == inferType(Field(node, "test"))
             st1 == IF testType # "boolean" /\ testType # "any"
                    THEN PushError(st, "Condition must be boolean, got: " \o testType)
                    ELSE st
             test == processNode(Field(node, "test"), st1)
             body == processNode(Field(node, "body"), test.st)
             consequent == ProcessOrNull(node, "consequent", body.st)
             alternate == ProcessOrNull(node, "alternate", consequent.st)
             init == ProcessOrNull(node, "init", alternate.st)
             update == ProcessOrNull(node, "update", init.st)
         IN [node |-> WithField(WithField(WithField(WithField(WithField(WithField(
                        node, "test", test.node), "body", body.node),
                        "consequent", consequent.node), "alternate", alternate.node),
                        "init", init.node), "update", update.node),
             st |-> update.st]
    [] node.type \in {"BlockStatement", "Program"} ->
         LET body == ProcessList(node.body, st, <<>>)
         IN [node |-> [node EXCEPT !.body = body.node], st |-> body.st]
    [] node.type = "ExpressionStatement" ->
         LET expression == processNode(node.expression, st)
         IN [node |-> [node EXCEPT !.expression = expression.node],
             st |-> expression.st]
    [] OTHER -> ProcessKeys(node, st, Schema(node.type))

\* TypeCheckerMiddleware.process: the processed tree and the entries it
\* appends to context.errors
TypeCheckerProcess(tree) ==
  LET r == processNode(tree, [typeMap |-> <<>>, errors |-> <<>>])
  IN [ast |-> r.node,
      errors |-> [i \in 1..Len(r.st.errors) |-> TypeError(r.st.errors[i])]]

\* ------------------------------------------------------------------------
\* HoisterMiddleware
\* ------------------------------------------------------------------------
\* isDeclaration that knows variable declarations only
isDeclaration_variablesOnly(statement) ==
  statement.type = "VariableDeclaration"

isDeclaration(statement) ==
  statement.type = "VariableDeclaration" \/ statement.type = "FunctionDeclaration"

\* the loop shared by hoistProgram and hoistBlockStatement: every statement
\* is pushed on one of the two lists, which are then concatenated
RECURSIVE SeparateDeclarations(_, _, _)
SeparateDeclarations(body, hoistedDeclarations, otherStatements) ==
  IF body = <<>> THEN hoistedDeclarations \o otherStatements
  ELSE IF isDeclaration(Head(body))
       THEN SeparateDeclarations(Tail(body), Append(hoistedDeclarations, Head(body)),
                                 otherStatements)
       ELSE SeparateDeclarations(Tail(body), hoistedDeclarations,
                                 Append(otherStatements, Head(body)))

hoistProgram(program) ==
  [program EXCEPT !.body = SeparateDeclarations(program.body, <<>>, <<>>)]

hoistBlockStatement(block) ==
  [block EXCEPT !.body = SeparateDeclarations(block.body, <<>>, <<>>)]

hoistFunctionDeclaration(func) ==
  [func EXCEPT !.body = hoistBlockStatement(func.body)]

RECURSIVE hoistDeclarations(_), HoistKeys(_, _)

\* processNodeRecursively: the copy of a node with each child hoisted
HoistKeys(node, keys) ==
  IF keys = <<>> THEN node
  ELSE LET key == keys[1][1] IN
       IF key \notin DOMAIN node THEN HoistKeys(node, Tail(keys))
       ELSE IF keys[1][2] = "list"
            THEN HoistKeys([node EXCEPT ![key] =
                              [i \in 1..Len(node[key]) |-> hoistDeclarations(node[key][i])]],
                           Tail(keys))
            ELSE HoistKeys([node EXCEPT ![key] = hoistDeclarations(node[key])],
                           Tail(keys))

processNodeRecursively(node) == HoistKeys(node, Schema(node.type))

hoistDeclarations(tree) ==
  IF Falsy(tree) THEN tree
  ELSE CASE tree.type = "Program" -> hoistProgram(tree)
         [] tree.type = "BlockStatement" -> hoistBlockStatement(tree)
         [] tree.type = "FunctionDeclaration" -> hoistFunctionDeclaration(tree)
         [] OTHER -> processNodeRecursively(tree)

\* ------------------------------------------------------------------------
\* MacroInterpreter.  Its trees have the shape of types/index.ts: names are
\* Identifier nodes, a function or macro body is a statement array.
\* An expansion yields [stmts, errors]: the statements it returns and
\* context.errors afterwards.
\* ------------------------------------------------------------------------
MacroError(code, message) == [code |-> code, message |-> message]

\* Map.set(macro.name.name, macro)
registerMacro(map, macro) == (macro.name.name :> macro) @@ map

\* env.parameters after the binding loop of expandMacro
MacroEnvironment(macro, macroCall) ==
  [name \in {macro.parameters[i].name.name : i \in 1..Len(macro.parameters)} |->
     LET last == CHOOSE i \in 1..Len(macro.parameters) :
                   /\ macro.parameters[i].name.name = name
                   /\ \A j \in 1..Len(macro.parameters) :
                        macro.parameters[j].name.name = name => j <= i
     IN macroCall.arguments[last]]

expandIdentifier(ident, env) ==
  IF ident.name \in DOMAIN env THEN env[ident.name] ELSE ident

RECURSIVE expandExpression(_, _)
expandExpression(expr, env) ==
  CASE expr.type = "Identifier" -> expandIdentifier(expr, env)
    [] expr.type = "BinaryExpression" ->
         [expr EXCEPT !.left = expandExpression(expr.left, env),
                      !.right = expandExpression(expr.right, env)]
    [] expr.type = "CallExpression" ->
         [expr EXCEPT !.callee = expandExpression(expr.callee, env),
                      !.arguments = [i \in 1..Len(expr.arguments) |->
                                       expandExpression(expr.arguments[i], env)]]
    [] expr.type = "MemberExpression" ->
         [expr EXCEPT !.object = expandExpression(expr.object, env)]
    [] OTHER -> expr

RECURSIVE expandMacro(_, _, _), expandStatements(_, _, _, _, _), expandStatement(_, _, _, _)

expandVariableDeclaration(decl, env) ==
  IF "initializer" \in DOMAIN decl /\ ~Falsy(decl.initializer)
  THEN [decl EXCEPT !.initializer = expandExpression(decl.initializer, env)]
  ELSE decl

expandExpressionStatement(stmt, env) ==
  [stmt EXCEPT !.expression = expandExpression(stmt.expression, env)]

expandReturnStatement(stmt, env) ==
  IF "expression" \in DOMAIN stmt /\ ~Falsy(stmt.expression)
  THEN [stmt EXCEPT !.expression = expandExpression(stmt.expression, env)]
  ELSE stmt

\* expandStatement yields [stmt, errors]
expandFunctionDeclaration(func, env, map, errs) ==
  LET body == expandStatements(func.body, env, map, errs, <<>>)
  IN [stmt |-> [func EXCEPT !.body = body.stmts], errors |-> body.errors]

expandIfStatement(stmt, env, map, errs) ==
  LET then == expandStatement(stmt.thenStatement, env, map, errs)
      expanded == [stmt EXCEPT !.condition = expandExpression(stmt.condition, env),
                               !.thenStatement = then.stmt]
  IN IF "elseStatement" \in DOMAIN stmt /\ ~Falsy(stmt.elseStatement)
     THEN LET else == expandStatement(stmt.elseStatement, env, map, then.errors)
          IN [stmt |-> [expanded EXCEPT !.elseStatement = else.stmt],
              errors |-> else.errors]
     ELSE [stmt |-> expanded, errors |-> then.errors]

expandStatement(statement, env, map, errs) ==
  CASE statement.type = "FunctionDeclaration" ->
         expandFunctionDeclaration(statement, env, map, errs)
    [] statement.type = "VariableDeclaration" ->
         [stmt |-> expandVariableDeclaration(statement, env), errors |-> errs]
    [] statement.type = "ExpressionStatement" ->
         [stmt |-> expandExpressionStatement(statement, env), errors |-> errs]
    [] statement.type = "ReturnStatement" ->
         [stmt |-> expandReturnStatement(statement, env), errors |-> errs]
    [] statement.type = "IfStatement" ->
         expandIfStatement(statement, env, map, errs)
    [] OTHER -> [stmt |-> statement, errors |-> errs]

\* a loop that gives up at the first macro call that reports an error
expandStatements_stopAtError(statements, env, map, errs, expanded) ==
  IF statements = <<>> THEN [stmts |-> expanded, errors |-> errs]
  ELSE LET statement == Head(statements) IN
    CASE statement.type = "MacroCall" ->
           LET r == expandMacro(statement, map, errs)
           IN IF r.errors # errs
              THEN [stmts |-> expanded, errors |-> r.errors]
              ELSE expandStatements(Tail(statements), env, map, r.errors,
                                    expanded \o r.stmts)
      [] statement.type \in {"MacroDefinition", "ApiDefinition", "TypeDefinition",
                             "ModuleDefinition"} ->
           expandStatements(Tail(statements), env, map, errs,
                            Append(expanded, statement))
      [] OTHER ->
           LET r == expandStatement(statement, env, map, errs)
           IN expandStatements(Tail(statements), env, map, r.errors,
                               Append(expanded, r.stmt))

\* the loop of expandStatements: expanded is the list built so far
expandStatements(statements, env, map, errs, expanded) ==
  IF statements = <<>> THEN [stmts |-> expanded, errors |-> errs]
  ELSE LET statement == Head(statements) IN
    CASE statement.type = "MacroCall" ->
           LET r == expandMacro(statement, map, errs)
           IN expandStatements(Tail(statements), env, map, r.errors,
                               expanded \o r.stmts)
      [] statement.type \in {"MacroDefinition", "ApiDefinition", "TypeDefinition",
                             "ModuleDefinition"} ->
           expandStatements(Tail(statements), env, map, errs,
                            Append(expanded, statement))
      [] OTHER ->
           LET r == expandStatement(statement, env, map, errs)
           IN expandStatements(Tail(statements), env, map, r.errors,
                               Append(expanded, r.stmt))

\* expandMacro that drops a call of the wrong arity without reporting it
expandMacro_silentMismatch(macroCall, map, errs) ==
  LET macroName == macroCall.name.name IN
  IF macroName \notin DOMAIN map
  THEN [stmts |-> <<>>,
        errors |-> Append(errs, MacroError("UNDEFINED_MACRO",
                                           "Undefined macro: " \o macroName))]
  ELSE LET macro == map[macroName] IN
    IF Len(macroCall.arguments) # Len(macro.parameters)
    THEN [stmts |-> <<>>, errors |-> errs]
    ELSE expandStatements(macro.body, MacroEnvironment(macro, macroCall), map, errs, <<>>)

expandMacro(macroCall, map, errs) ==
  LET macroName == macroCall.name.name IN
  IF macroName \notin DOMAIN map
  THEN [stmts |-> <<>>,
        errors |-> Append(errs, MacroError("UNDEFINED_MACRO",
                                           "Undefined macro: " \o macroName))]
  ELSE LET macro == map[macroName] IN
    IF Len(macroCall.arguments) # Len(macro.parameters)
    THEN [stmts |-> <<>>,
          errors |-> Append(errs, MacroError("MACRO_ARGUMENT_MISMATCH",
                       "Macro " \o macroName \o " expects "
                       \o ToString(Len(macro.parameters)) \o " arguments, got "
                       \o ToString(Len(macroCall.arguments))))]
    ELSE expandStatements(macro.body, MacroEnvironment(macro, macroCall), map, errs, <<>>)

\* the first pass of processProgram: the macro map after registering every
\* top-level definition, in order
RECURSIVE CollectMacros(_, _)
CollectMacros(body, map) ==
  IF body = <<>> THEN map
  ELSE CollectMacros(Tail(body),
                     IF Head(body).type = "MacroDefinition"
                     THEN registerMacro(map, Head(body)) ELSE map)

\* processProgram yields [program, macros, errors]
processProgram(program, map, errs) ==
  LET map1 == CollectMacros(program.body, map)
      r == expandStatements(program.body, <<>>, map1, errs, <<>>)
  IN [program |-> [program EXCEPT !.body = r.stmts], macros |-> map1,
      errors |-> r.errors]

\* ------------------------------------------------------------------------
\* Trees given directly to the middleware passes (the node types the passes
\* have cases for)
\* ------------------------------------------------------------------------
Lit(value) == [type |-> "Literal", value |-> value]

Ident(name) == [type |-> "Identifier", name |-> name]

Bin(operator, left, right) ==
  [type |-> "BinaryExpression", operator |-> operator, left |-> left, right |-> right]

Member(object, property) ==
  [type |-> "MemberExpression", object |-> object, property |-> property]

Unary(operator, argument) ==
  [type |-> "UnaryExpression", operator |-> operator, argument |-> argument]

VarDecl(kind, name, init) ==
  [type |-> "VariableDeclaration", kind |-> kind, name |-> name, init |-> init]

ExprStmt(expression) == [type |-> "ExpressionStatement", expression |-> expression]

Block(body) == [type |-> "BlockStatement", body |-> body]

FuncDecl(name, params, body) ==
  [type |-> "FunctionDeclaration", name |-> name, params |-> params, body |-> body]

ReturnStmt(argument) == [type |-> "ReturnStatement", argument |-> argument]

IfStmt(test, consequent, alternate) ==
  [type |-> "IfStatement", test |-> test, consequent |-> consequent,
   alternate |-> alternate]

Program(body) == [type |-> "Program", body |-> body]

One == Lit(JsNumber("1"))

StrX == Lit(JsString("x"))

Leaves == {One, StrX, Lit(JsBoolean("true")), Ident("a")}

BinaryOperators == {"-", "+", "<", "==", "&&"}

BinaryExpressions ==
  {Bin(op, l, r) : op \in BinaryOperators, l \in Leaves, r \in Leaves}

MwStatements ==
  {VarDecl("let", "a", One),
   VarDecl("let", "b", Bin("-", One, StrX)),
   FuncDecl("f", <<>>, Block(<<ExprStmt(Ident("a")), VarDecl("var", "c", Null)>>)),
   ExprStmt(Bin("-", Ident("a"), One)),
   ReturnStmt(Ident("a")),
   IfStmt(Lit(JsBoolean("true")),
          Block(<<ExprStmt(One), VarDecl("let", "d", StrX)>>), Null)}

MwBodies == UNION {[1..n -> MwStatements] : n \in 0..MaxBody}

\* let p = 1; o.p;
MwMember ==
  Program(<<VarDecl("let", "p", One), ExprStmt(Member(Ident("o"), Ident("p")))>>)

\* let f = 1; function f() { f; }
MwFunction ==
  Program(<<VarDecl("let", "f", One),
            FuncDecl("f", <<>>, Block(<<ExprStmt(Ident("f"))>>))>>)

MwTrees ==
  {Program(b) : b \in MwBodies} \cup {Block(b) : b \in MwBodies}
    \cup {MwMember, MwFunction}
    \cup BinaryExpressions

\* ------------------------------------------------------------------------
\* Trees given to the macro interpreter (the shape of types/index.ts)
\* ------------------------------------------------------------------------
Param(name) == [type |-> "Parameter", name |-> Ident(name)]

MacroDefinition(name, parameters, body) ==
  [type |-> "MacroDefinition", name |-> Ident(name),
   parameters |-> [i \in 1..Len(parameters) |-> Param(parameters[i])],
   body |-> body]

MacroCall(name, arguments) ==
  [type |-> "MacroCall", name |-> Ident(name), arguments |-> arguments]

Declare(name, initializer) ==
  [type |-> "VariableDeclaration", name |-> Ident(name), initializer |-> initializer]

When(condition, thenStatement) ==
  [type |-> "IfStatement", condition |-> condition, thenStatement |-> thenStatement]

\* macro two(p, q)  p + q;  end
DefTwo ==
  MacroDefinition("two", <<"p", "q">>, <<ExprStmt(Bin("+", Ident("p"), Ident("q")))>>)

\* macro one(p)  let v = p;  two(p, 1)  end
DefOne ==
  MacroDefinition("one", <<"p">>,
                  <<Declare("v", Ident("p")), MacroCall("two", <<Ident("p"), One>>)>>)

\* macro neg(p)  -p;  end
DefNeg ==
  MacroDefinition("neg", <<"p">>, <<ExprStmt(Unary("-", Ident("p")))>>)

MacroDefinitions == {DefOne, DefTwo, DefNeg}

StatementCalls ==
  {MacroCall("two", <<Ident("a"), Ident("b")>>),
   MacroCall("two", <<Ident("a")>>),
   MacroCall("one", <<Ident("a")>>),
   MacroCall("none", <<>>)}

MacroCalls == StatementCalls \cup {MacroCall("neg", <<Ident("a")>>)}

MacroStatements ==
  {DefOne, DefTwo} \cup StatementCalls
    \cup {ExprStmt(Ident("p")),
          When(Ident("a"), MacroCall("two", <<Ident("a"), Ident("b")>>))}

MacroPrograms ==
  {Program(b) : b \in UNION {[1..n -> MacroStatements] : n \in 0..MaxBody}}

\* ------------------------------------------------------------------------
\* LanguageManager.transpile: tokenize, parseToCST, convertCSTToAST, then the
\* middleware passes
\* ------------------------------------------------------------------------
Idle ==
  /\ cst = Null /\ ast = Null /\ out = Null
  /\ errors = <<>> /\ warnings = <<>>
  /\ macros = <<>> /\ call = Null /\ ran = <<>> /\ step = 0

\* the pass lists of the registered languages (middlewareDependencies)
LanguageLists ==
  {<<"variable-renamer", "type-checker">>,
   <<"variable-renamer", "type-checker", "hoister">>,
   <<"variable-renamer", "hoister">>}

\* the names MiddlewareManager registers in its constructor
Registered == {"variable-renamer", "type-checker", "hoister"}

\* a loop that walks the list from its end
middlewareName_reversed(list, done) ==
  IF done < Len(list) THEN list[Len(list) - done] ELSE ""

\* the name the loop of applyMiddleware takes next, "" when the list is done
middlewareName(list, done) ==
  IF done < Len(list) THEN list[done + 1] ELSE ""

Init ==
  /\ source \in Sources
  /\ names \in LanguageLists
  /\ position = 0 /\ line = 1 /\ column = 1
  /\ tokens = <<>>
  /\ stage = "tokenize"
  /\ Idle

\* one iteration of the loop of Tokenizer.tokenize
NextToken ==
  /\ stage = "tokenize"
  /\ position < Len(source)
  /\ LET r == nextToken(source, [pos |-> position, line |-> line, col |-> column])
     IN /\ position' = r.s.pos
        /\ line' = r.s.line
        /\ column' = r.s.col
        /\ tokens' = IF r.tok = Null THEN tokens ELSE Append(tokens, r.tok)
  /\ UNCHANGED <<source, stage, cst, ast, out, errors, warnings, macros, call, ran,
                 names, step>>

\* the loop of Tokenizer.tokenize is over: the EOF token is pushed
EndTokenize ==
  /\ stage = "tokenize"
  /\ position >= Len(source)
  /\ tokens' = Append(tokens, Token("EOF", "", line, column))
  /\ stage' = "tokenized"
  /\ UNCHANGED <<source, position, line, column, cst, ast, out, errors, warnings,
                 macros, call, ran, names, step>>

\* LanguageManager.parseToCST: a throw of the parser ends transpile
Parse ==
  /\ stage = "tokenized"
  /\ cst' = parse(tokens)
  /\ stage' = IF cst'.ok THEN "parsed" ELSE "failed"
  /\ UNCHANGED <<lexVars, ast, out, errors, warnings, macros, call, ran, names, step>>

\* LanguageManager.convertCSTToAST
Convert ==
  /\ stage = "parsed"
  /\ ast' = convertProgram(cst.node)
  /\ out' = ast'
  /\ stage' = "middleware"
  /\ UNCHANGED <<lexVars, cst, errors, warnings, macros, call, ran, names, step>>

\* a step of MiddlewareManager.applyMiddleware that runs the variable renamer
Rename ==
  /\ stage = "middleware"
  /\ middlewareName(names, step) = "variable-renamer"
  /\ LET r == VariableRenamerProcess(out)
     IN /\ ast' = out
        /\ out' = r.ast
        /\ warnings' = warnings \o r.warnings
  /\ ran' = Append(ran, "variable-renamer")
  /\ step' = step + 1
  /\ UNCHANGED <<lexVars, stage, cst, errors, macros, call, names>>

\* a step of MiddlewareManager.applyMiddleware that runs the type checker
TypeCheck ==
  /\ stage = "middleware"
  /\ middlewareName(names, step) = "type-checker"
  /\ LET r == TypeCheckerProcess(out)
     IN /\ ast' = out
        /\ out' = r.ast
        /\ errors' = errors \o r.errors
  /\ ran' = Append(ran, "type-checker")
  /\ step' = step + 1
  /\ UNCHANGED <<lexVars, stage, cst, warnings, macros, call, names>>

\* a step of MiddlewareManager.applyMiddleware that runs the hoister
Hoist ==
  /\ stage = "middleware"
  /\ middlewareName(names, step) = "hoister"
  /\ ast' = out
  /\ out' = hoistDeclarations(out)
  /\ ran' = Append(ran, "hoister")
  /\ step' = step + 1
  /\ UNCHANGED <<lexVars, stage, cst, errors, warnings, macros, call, names>>

\* a loop that returns at the first name that is not registered
NotFound_stops ==
  /\ stage = "middleware"
  /\ step < Len(names)
  /\ middlewareName(names, step) \notin Registered
  /\ stage' = "applied"
  /\ UNCHANGED <<lexVars, cst, ast, out, errors, warnings, macros, call, ran,
                 names, step>>

\* the warning pushed for a name without middleware
NotFoundWarning(name) ==
  [code |-> "MIDDLEWARE_NOT_FOUND",
   message |-> "Middleware '" \o name \o "' not found"]

\* a step of MiddlewareManager.applyMiddleware on a name that is not registered
NotFound ==
  /\ stage = "middleware"
  /\ step < Len(names)
  /\ middlewareName(names, step) \notin Registered
  /\ warnings' = Append(warnings, NotFoundWarning(middlewareName(names, step)))
  /\ step' = step + 1
  /\ UNCHANGED <<lexVars, stage, cst, ast, out, errors, macros, call, ran, names>>

\* the loop of applyMiddleware is over: processedAST is returned
Applied ==
  /\ stage = "middleware"
  /\ middlewareName(names, step) = ""
  /\ stage' = "applied"
  /\ UNCHANGED <<lexVars, cst, ast, out, errors, warnings, macros, call, ran, names, step>>

ApplyMiddleware == Rename \/ TypeCheck \/ Hoist \/ NotFound \/ Applied

\* every name of a language's list is registered: NotFound has no step here
Next ==
  NextToken \/ EndTokenize \/ Parse \/ Convert \/ Rename \/ TypeCheck \/ Hoist \/ Applied

Spec == Init /\ [][Next]_vars

\* ------------------------------------------------------------------------
\* The passes run on a given tree
\* ------------------------------------------------------------------------
NoSource ==
  /\ source = <<>> /\ position = 0 /\ line = 1 /\ column = 1
  /\ tokens = <<>> /\ cst = Null

\* the names a caller of applyMiddleware may list; "minifier" is not registered
PassNames == Registered \cup {"minifier"}

\* the lists of at most MaxPasses names, no name twice
NameLists ==
  {list \in UNION {[1..n -> PassNames] : n \in 0..MaxPasses} :
     \A i, j \in 1..Len(list) : list[i] = list[j] => i = j}

InitMiddleware ==
  /\ NoSource
  /\ stage = "middleware"
  /\ names \in NameLists /\ step = 0
  /\ ast \in MwTrees
  /\ out = ast
  /\ errors = <<>> /\ warnings = <<>>
  /\ macros = <<>> /\ call = Null /\ ran = <<>>

NextMiddleware == ApplyMiddleware

SpecMiddleware == InitMiddleware /\ [][NextMiddleware]_vars

\* ------------------------------------------------------------------------
\* A MacroInterpreter and its context: at most MaxOps operations among
\* registerMacro, expandMacro, clearMacros and a final processProgram
\* ------------------------------------------------------------------------
InitMacro ==
  /\ NoSource
  /\ stage = "interpreter"
  /\ ast = Null /\ out = Null
  /\ errors = <<>> /\ warnings = <<>>
  /\ macros = <<>> /\ call = Null /\ ran = <<>>
  /\ names = <<>> /\ step = 0

RegisterMacro ==
  /\ stage = "interpreter"
  /\ Len(ran) < MaxOps
  /\ \E macro \in MacroDefinitions : macros' = registerMacro(macros, macro)
  /\ ran' = Append(ran, "registerMacro")
  /\ UNCHANGED <<lexVars, stage, cst, ast, out, errors, warnings, call, names, step>>

ClearMacros ==
  /\ stage = "interpreter"
  /\ Len(ran) < MaxOps
  /\ macros' = <<>>
  /\ ran' = Append(ran, "clearMacros")
  /\ UNCHANGED <<lexVars, stage, cst, ast, out, errors, warnings, call, names, step>>

ExpandMacro ==
  /\ stage = "interpreter"
  /\ Len(ran) < MaxOps
  /\ \E macroCall \in MacroCalls :
       LET r == expandMacro(macroCall, macros, errors)
       IN /\ call' = macroCall
          /\ out' = r.stmts
          /\ errors' = r.errors
  /\ ran' = Append(ran, "expandMacro")
  /\ UNCHANGED <<lexVars, stage, cst, ast, warnings, macros, names, step>>

ProcessProgram ==
  /\ stage = "interpreter"
  /\ Len(ran) < MaxOps
  /\ \E program \in MacroPrograms :
       LET r == processProgram(program, macros, errors)
       IN /\ ast' = program
          /\ out' = r.program
          /\ macros' = r.macros
          /\ errors' = r.errors
  /\ stage' = "processed"
  /\ ran' = Append(ran, "processProgram")
  /\ UNCHANGED <<lexVars, cst, warnings, call, names, step>>

NextMacro == RegisterMacro \/ ClearMacros \/ ExpandMacro \/ ProcessProgram

SpecMacro == InitMacro /\ [][NextMacro]_vars

\* ========================================================================
\* Properties
\* ========================================================================
Last(seq) == seq[Len(seq)]

\* Parser.parse has returned or thrown
ParseEnded == stage \in {"parsed", "failed", "middleware", "applied"}

IsLiteral(n, text) == n.type = "LITERAL" /\ n.value.v = text

IsIdentifier(n, name) == n.type = "IDENTIFIER" /\ n.name = name

IsBinary(n, operator) == n.type = "BINARY_EXPRESSION" /\ n.operator = operator

\* the program is one expression statement
OneExpression(program) ==
  Len(program.body) = 1 /\ program.body[1].type = "EXPRESSION_STATEMENT"

\* C1: parsing `1 + 2 * 3;` yields +(1, *(2, 3)) and parsing `1 * 2 + 3;`
\* yields +(*(1, 2), 3).
C1_Precedence ==
  /\ (source = SrcAddMul /\ ParseEnded) =>
       /\ cst.ok
       /\ OneExpression(cst.node)
       /\ LET e == cst.node.body[1].expression IN
            /\ IsBinary(e, "+")
            /\ IsLiteral(e.left, "1")
            /\ IsBinary(e.right, "*")
            /\ IsLiteral(e.right.left, "2")
            /\ IsLiteral(e.right.right, "3")
  /\ (source = SrcMulAdd /\ ParseEnded) =>
       /\ cst.ok
       /\ OneExpression(cst.node)
       /\ LET e == cst.node.body[1].expression IN
            /\ IsBinary(e, "+")
            /\ IsBinary(e.left, "*")
            /\ IsLiteral(e.left.left, "1")
            /\ IsLiteral(e.left.right, "2")
            /\ IsLiteral(e.right, "3")

\* the sources `x op1 y op2 z;` whose two operators belong to one level
ChainSources == {SrcSubSub, SrcMulMul, SrcDivMul, SrcEqEq, SrcLtLt}

ChainOperators(src) ==
  CASE src = SrcSubSub -> <<"-", "-">>
    [] src = SrcMulMul -> <<"*", "*">>
    [] src = SrcDivMul -> <<"/", "*">>
    [] src = SrcEqEq -> <<"==", "==">>
    [] src = SrcLtLt -> <<"<", "<">>

\* C2: every binary level is left-associative: a chain `x op y op z` of one
\* level parses to op(op(x, y), z); `1 - 2 - 3;` yields ((1 - 2) - 3).
C2_LeftAssociative ==
  (source \in ChainSources /\ ParseEnded) =>
    /\ cst.ok
    /\ OneExpression(cst.node)
    /\ LET e == cst.node.body[1].expression IN
         /\ IsBinary(e, ChainOperators(source)[2])
         /\ IsBinary(e.left, ChainOperators(source)[1])
         /\ e.left.left.type \in {"LITERAL", "IDENTIFIER"}
         /\ e.left.right.type \in {"LITERAL", "IDENTIFIER"}
         /\ e.right.type \in {"LITERAL", "IDENTIFIER"}

\* C3: tokenize terminates and its result ends with the only EOF token:
\* every iteration of the loop moves the position forward, the position never
\* passes the end of the source, no token pushed by an iteration is an EOF
\* token, and the finished list ends with one.
C3_TokenizeTotal ==
  /\ [](/\ position <= Len(source)
        /\ stage = "tokenize" => \A i \in 1..Len(tokens) : tokens[i].type # "EOF"
        /\ stage # "tokenize" =>
             /\ tokens # <<>>
             /\ Last(tokens).type = "EOF"
             /\ Cardinality({i \in 1..Len(tokens) : tokens[i].type = "EOF"}) = 1)
  /\ [][(stage = "tokenize" /\ stage' = "tokenize") => position' > position]_vars

\* a finished scan of a text that holds an unknown character and more
C3_Witness ==
  /\ stage = "tokenized"
  /\ Len(tokens) >= 3
  /\ \E i \in 1..Len(tokens) : tokens[i].type = "ERROR"
  /\ Last(tokens).type = "EOF"

\* the macro nodes of a tree of the interpreter's shape
RECURSIVE HasMacroNode(_)
HasMacroNode(statement) ==
  \/ statement.type \in {"MacroCall", "MacroDefinition"}
  \/ /\ statement.type = "FunctionDeclaration"
     /\ \E i \in 1..Len(statement.body) : HasMacroNode(statement.body[i])
  \/ /\ statement.type = "IfStatement"
     /\ \/ HasMacroNode(statement.thenStatement)
        \/ /\ "elseStatement" \in DOMAIN statement
           /\ HasMacroNode(statement.elseStatement)

\* the macro calls of a statement, those inside macro bodies included
RECURSIVE CallsIn(_)
CallsIn(statement) ==
  CASE statement.type = "MacroCall" -> {statement}
    [] statement.type \in {"MacroDefinition", "FunctionDeclaration"} ->
         UNION {CallsIn(statement.body[i]) : i \in 1..Len(statement.body)}
    [] statement.type = "IfStatement" ->
         CallsIn(statement.thenStatement)
           \cup (IF "elseStatement" \in DOMAIN statement
                 THEN CallsIn(statement.elseStatement) ELSE {})
    [] OTHER -> {}

\* every call of the program names a macro the program defines, with as many
\* arguments as the definition has parameters (no macro of the trees above
\* calls itself, directly or through another)
WellFormed(program) ==
  \A i \in 1..Len(program.body) : \A c \in CallsIn(program.body[i]) :
    \E j \in 1..Len(program.body) :
      /\ program.body[j].type = "MacroDefinition"
      /\ program.body[j].name.name = c.name.name
      /\ \A k \in 1..Len(program.body) :
           (/\ program.body[k].type = "MacroDefinition"
            /\ program.body[k].name.name = c.name.name)
             => Len(program.body[k].parameters) = Len(c.arguments)

\* C4: for a well-formed program, the tree returned by processProgram holds
\* no MacroCall and no MacroDefinition node.
C4_NoMacroNodes ==
  (stage = "processed" /\ WellFormed(ast)) =>
    \A i \in 1..Len(out.body) : ~HasMacroNode(out.body[i])

\* the inferred type the type checker left on the declaration of a name
DeclaredType(program, name) ==
  LET decls == {i \in 1..Len(program.body) :
                  /\ program.body[i].type \in {"VariableDeclaration",
                                               "VARIABLE_DECLARATION"}
                  /\ program.body[i].name = name}
  IN IF decls = {} THEN "none"
     ELSE LET d == program.body[CHOOSE i \in decls : TRUE]
          IN IF "inferredType" \in DOMAIN d THEN d.inferredType ELSE "none"

\* C5: the pipeline on `let x = 1 + 2;` does not fail, and once the type
\* checker has run, context.errors is empty and x is inferred as number.
C5_LetInfersNumber ==
  source = SrcLet =>
    /\ stage # "failed"
    /\ (stage = "middleware" /\ ran # <<>> /\ Last(ran) = "type-checker") =>
         /\ errors = <<>>
         /\ DeclaredType(out, "x") = "number"

\* C6: `function add(a: number, b: number): number { return a + b; }` parses
\* to one FunctionDeclaration add with parameters a and b and a body of one
\* ReturnStatement wrapping +(a, b).
C6_ParsesAdd ==
  (source = SrcAdd /\ ParseEnded) =>
    /\ cst.ok
    /\ Len(cst.node.body) = 1
    /\ LET f == cst.node.body[1] IN
         /\ f.type = "FUNCTION_DECLARATION"
         /\ f.name = "add"
         /\ f.params = <<"a", "b">>
         /\ Len(f.body.body) = 1
         /\ f.body.body[1].type = "RETURN_STATEMENT"
         /\ IsBinary(f.body.body[1].argument, "+")
         /\ IsIdentifier(f.body.body[1].argument.left, "a")
         /\ IsIdentifier(f.body.body[1].argument.right, "b")

\* a statement that declares a variable or a function
IsDeclarationStatement(statement) ==
  statement.type \in {"VariableDeclaration", "FunctionDeclaration"}

Occurrences(seq, x) == Cardinality({i \in 1..Len(seq) : seq[i] = x})

\* C7: the hoister turns the statement list of a Program or block into a
\* stable partition: the declarations in their original order, then the other
\* statements in their original order, nothing added, dropped or duplicated.
C7_StablePartition ==
  (/\ stage = "middleware" /\ ran # <<>> /\ Last(ran) = "hoister"
   /\ ast.type \in {"Program", "BlockStatement"}) =>
    /\ out.type = ast.type
    /\ Len(out.body) = Len(ast.body)
    /\ \A i \in 1..Len(ast.body) :
         Occurrences(out.body, ast.body[i]) = Occurrences(ast.body, ast.body[i])
    /\ \A i, j \in 1..Len(out.body) :
         (IsDeclarationStatement(out.body[j]) /\ ~IsDeclarationStatement(out.body[i]))
           => j < i
    /\ SelectSeq(out.body, IsDeclarationStatement)
         = SelectSeq(ast.body, IsDeclarationStatement)
    /\ SelectSeq(out.body, LAMBDA st : ~IsDeclarationStatement(st))
         = SelectSeq(ast.body, LAMBDA st : ~IsDeclarationStatement(st))

\* the hoister has moved a declaration of a list with two of them
C7_Witness ==
  /\ stage = "middleware" /\ ran # <<>> /\ Last(ran) = "hoister"
  /\ ast.type \in {"Program", "BlockStatement"}
  /\ Len(SelectSeq(ast.body, IsDeclarationStatement)) >= 2
  /\ out.body # ast.body

\* C8: type-checking 1 - "x" appends at least one error, reports the result
\* type number and returns the annotated expression.
C8_SubtractString ==
  (/\ stage = "middleware" /\ ran # <<>> /\ Last(ran) = "type-checker"
   /\ ast = Bin("-", One, StrX)) =>
    /\ Len(errors) >= 1
    /\ \A i \in 1..Len(errors) : errors[i].code = "TYPE_ERROR"
    /\ out.type = "BinaryExpression"
    /\ out.inferredType = "number"

C8_Witness ==
  /\ stage = "middleware" /\ ran = <<"type-checker">>
  /\ ast = Bin("-", One, StrX)
  /\ errors # <<>>
  /\ out.inferredType = "number"

\* the call passes one argument to a macro registered with two parameters
OneForTwo(macroCall, map) ==
  /\ macroCall # Null
  /\ Len(macroCall.arguments) = 1
  /\ macroCall.name.name \in DOMAIN map
  /\ Len(map[macroCall.name.name].parameters) = 2

\* C9: expanding a one-argument call of a two-parameter macro appends exactly
\* one error, of code MACRO_ARGUMENT_MISMATCH, and yields no statement;
\* inside processProgram the call site contributes nothing to the body.
C9_ArityMismatch ==
  [][/\ (/\ ran' = Append(ran, "expandMacro")
         /\ OneForTwo(call', macros))
        => /\ Len(errors') = Len(errors) + 1
           /\ SubSeq(errors', 1, Len(errors)) = errors
           /\ Last(errors').code = "MACRO_ARGUMENT_MISMATCH"
           /\ out' = <<>>
     /\ (/\ ran' = Append(ran, "processProgram")
         /\ ast'.body = <<DefTwo, MacroCall("two", <<Ident("a")>>), ExprStmt(Ident("p"))>>)
        => /\ Len(errors') = Len(errors) + 1
           /\ Last(errors').code = "MACRO_ARGUMENT_MISMATCH"
           /\ SelectSeq(out'.body, LAMBDA st : st.type # "MacroDefinition")
                = <<ExprStmt(Ident("p"))>>]_vars

C9_Witness ==
  /\ stage = "interpreter"
  /\ ran # <<>> /\ Last(ran) = "expandMacro"
  /\ OneForTwo(call, macros)
  /\ errors # <<>>
  /\ Last(errors).code = "MACRO_ARGUMENT_MISMATCH"
  /\ out = <<>>

\* C10: every error thrown by Parser.parse carries the line and column of the
\* offending token and an expectation message.
C10_ErrorsLocated ==
  stage = "failed" =>
    /\ cst.err.located
    /\ cst.err.line >= 1 /\ cst.err.column >= 1
    /\ cst.err.message # ""

\* the child nodes of a node of the tree Parser.parse returns, in order
RECURSIVE ChildrenOf(_, _)
ChildrenOf(n, keys) ==
  IF keys = <<>> THEN <<>>
  ELSE (IF keys[1][1] \notin DOMAIN n THEN <<>>
        ELSE IF keys[1][2] = "list" THEN n[keys[1][1]]
        ELSE IF Falsy(n[keys[1][1]]) THEN <<>> ELSE <<n[keys[1][1]]>>)
       \o ChildrenOf(n, Tail(keys))

ChildSeq(n) == ChildrenOf(n, Schema(n.type))

RECURSIVE SpansEnclose(_)
SpansEnclose(n) ==
  \A i \in 1..Len(ChildSeq(n)) :
    /\ n.start <= ChildSeq(n)[i].start
    /\ ChildSeq(n)[i].end <= n.end
    /\ SpansEnclose(ChildSeq(n)[i])

\* C11: in every tree returned by Parser.parse, the span of a node encloses
\* the span of each of its children.
C11_SpansEnclose ==
  (ParseEnded /\ cst.ok) => SpansEnclose(cst.node)

RECURSIVE KindsDeclared(_)
KindsDeclared(n) ==
  /\ n.type = "VARIABLE_DECLARATION" => n.kind \in {"var", "let", "const"}
  /\ \A i \in 1..Len(ChildSeq(n)) : KindsDeclared(ChildSeq(n)[i])

\* C12: every VariableDeclaration of a tree returned by Parser.parse, at
\* statement level or as the initializer of a for statement, has kind var,
\* let or const.
C12_BindingKind ==
  (ParseEnded /\ cst.ok) => KindsDeclared(cst.node)

\* the BinaryExpression and UnaryExpression nodes of a tree
RECURSIVE OperatorNodes(_), OperatorNodesIn(_)
OperatorNodes(n) ==
  (IF n.type \in {"BINARY_EXPRESSION", "UNARY_EXPRESSION"} THEN 1 ELSE 0)
    + OperatorNodesIn(ChildSeq(n))

OperatorNodesIn(seq) ==
  IF seq = <<>> THEN 0 ELSE OperatorNodes(Head(seq)) + OperatorNodesIn(Tail(seq))

OperatorTokens(toks) == Cardinality({i \in 1..Len(toks) : toks[i].type = "OPERATOR"})

\* C17: Parser.parse returns no Program for an expression statement whose
\* binary operator has no right operand, and in a program of expression
\* statements every operator token of the input appears in the tree.
C17_NoOperatorLost ==
  /\ (source = SrcDangling /\ ParseEnded) => ~cst.ok
  /\ (/\ ParseEnded /\ cst.ok
      /\ \A i \in 1..Len(cst.node.body) : cst.node.body[i].type = "EXPRESSION_STATEMENT")
       => OperatorNodes(cst.node) = OperatorTokens(tokens)

IsUnary(n, operator) == n.type = "UNARY_EXPRESSION" /\ n.operator = operator

\* C18: prefix operators stack: -a, !a and +a parse to one UnaryExpression
\* over Identifier a, and - -a to two nested ones.
C18_UnaryStacks ==
  /\ (source \in {SrcNeg, SrcNot, SrcPlus, SrcNegNeg} /\ ParseEnded) => cst.ok
  /\ (source = SrcNeg /\ ParseEnded) =>
       /\ IsUnary(cst.node.body[1].expression, "-")
       /\ IsIdentifier(cst.node.body[1].expression.argument, "a")
  /\ (source = SrcNot /\ ParseEnded) =>
       /\ IsUnary(cst.node.body[1].expression, "!")
       /\ IsIdentifier(cst.node.body[1].expression.argument, "a")
  /\ (source = SrcPlus /\ ParseEnded) =>
       /\ IsUnary(cst.node.body[1].expression, "+")
       /\ IsIdentifier(cst.node.body[1].expression.argument, "a")
  /\ (source = SrcNegNeg /\ ParseEnded) =>
       /\ IsUnary(cst.node.body[1].expression, "-")
       /\ IsUnary(cst.node.body[1].expression.argument, "-")
       /\ IsIdentifier(cst.node.body[1].expression.argument.argument, "a")

\* C19: a multi-character operator of the table, alone or between two
\* operands, is emitted as one OPERATOR token with that text.
C19_LongestOperator ==
  (stage # "tokenize") =>
    /\ source \in MultiCharOperators =>
         /\ Len(tokens) = 2
         /\ tokens[1].type = "OPERATOR"
         /\ tokens[1].value = Substring(source, 0, 2)
    /\ (source \in OperatorSources /\ Len(source) = 4) =>
         /\ Len(tokens) = 4
         /\ tokens[2].type = "OPERATOR"
         /\ tokens[2].value = Substring(source, 1, 3)

\* C20: only a statement that starts with none of the statement words is
\* parsed as an expression statement; fn, macro, import, export, api and
\* module each select a parser of their own.
C20_StatementDispatch ==
  (ParseEnded /\ cst.ok) =>
    \A i \in 1..Len(cst.node.body) :
      cst.node.body[i].type = "EXPRESSION_STATEMENT" =>
        tokens[cst.node.body[i].start + 1].value
          \notin {"fn", "macro", "import", "export", "api", "module"}

IsRegistered(name) == name \in Registered

IsPrefix(short, long) ==
  Len(short) <= Len(long) /\ SubSeq(long, 1, Len(short)) = short

\* C13: applyMiddleware runs the registered names of the list in the order of
\* the list; each pass is given the tree the previous one returned and adds
\* to the same errors and warnings; the loop ends only after the whole list,
\* whatever errors a pass has appended.
C13_PassOrder ==
  /\ [](stage \in {"middleware", "applied"}
          => ran = SelectSeq(SubSeq(names, 1, step), IsRegistered))
  /\ [](stage = "applied" => step = Len(names))
  /\ [][(stage = "middleware" /\ step' # step)
          => /\ step' = step + 1
             /\ IsPrefix(errors, errors') /\ IsPrefix(warnings, warnings')
             /\ IF names[step'] \in Registered
                  THEN ast' = out /\ ran' = Append(ran, names[step'])
                  ELSE out' = out /\ ran' = ran]_vars

\* the type checker has appended errors and the hoister has still run after it
C13_Witness ==
  /\ stage = "applied"
  /\ names = <<"type-checker", "hoister">>
  /\ ran = names
  /\ errors # <<>>
  /\ out = hoistDeclarations(ast)

UndefinedNone == MacroError("UNDEFINED_MACRO", "Undefined macro: none")

IsCallOfNone(statement) ==
  statement.type = "MacroCall" /\ statement.name.name = "none"

NotCallOfNone(statement) == ~IsCallOfNone(statement)

OnlyCallsNone(body) ==
  \A i \in 1..Len(body) : body[i].type = "MacroCall" => IsCallOfNone(body[i])

C21_LiteralKinds ==
  /\ (source = SrcOne /\ ParseEnded) =>
       /\ cst.ok /\ OneExpression(cst.node)
       /\ cst.node.body[1].expression.type = "LITERAL"
       /\ cst.node.body[1].expression.value = JsNumber("1")
       /\ getLiteralType(cst.node.body[1].expression.value) = "number"
  /\ (source = SrcQuotedOne /\ ParseEnded) =>
       /\ cst.ok /\ OneExpression(cst.node)
       /\ cst.node.body[1].expression.type = "LITERAL"
       /\ cst.node.body[1].expression.value = JsString("1")
       /\ getLiteralType(cst.node.body[1].expression.value) = "string"

\* C22: in transpile, once the variable renamer has run on the tree of
\* `let count = 5;`, the declaration carries the name _count_0 and a
\* VARIABLES_RENAMED warning is recorded.
C22_RenamedInTranspile ==
  (source = SrcCount /\ ParseEnded) =>
    /\ cst.ok
    /\ (ran # <<>> /\ Last(ran) = "variable-renamer") =>
         /\ Len(out.body) = 1
         /\ out.body[1].name = "_count_0"
         /\ \E i \in 1..Len(warnings) : warnings[i].code = "VARIABLES_RENAMED"

\* C23: expanding a call replaces every Identifier of the macro body that
\* names a parameter by the argument at its position: in the operands of a
\* binary expression, in the operand of a unary expression and in the
\* arguments of a macro call nested in the body.
C23_ParameterSubstitution ==
  [][/\ (/\ ran' = Append(ran, "expandMacro")
         /\ call' = MacroCall("two", <<Ident("a"), Ident("b")>>)
         /\ "two" \in DOMAIN macros)
        => out' = <<ExprStmt(Bin("+", Ident("a"), Ident("b")))>>
     /\ (/\ ran' = Append(ran, "expandMacro")
         /\ call' = MacroCall("neg", <<Ident("a")>>)
         /\ "neg" \in DOMAIN macros)
        => out' = <<ExprStmt(Unary("-", Ident("a")))>>
     /\ (/\ ran' = Append(ran, "processProgram")
         /\ ast'.body = <<DefTwo, DefOne, MacroCall("one", <<Ident("a")>>)>>)
        => out'.body = <<DefTwo, DefOne, Declare("v", Ident("a")),
                         ExprStmt(Bin("+", Ident("a"), One))>>]_vars

DeclarationsFirst(body) ==
  \A i, j \in 1..Len(body) :
    (IsDeclarationStatement(body[j]) /\ ~IsDeclarationStatement(body[i])) => j < i

RECURSIVE HoistedEverywhere(_)
HoistedEverywhere(n) ==
  /\ n.type \in {"Program", "BlockStatement"} => DeclarationsFirst(n.body)
  /\ \A i \in 1..Len(ChildSeq(n)) : HoistedEverywhere(ChildSeq(n)[i])

\* C24: after the hoister has processed a Program, the body of the Program
\* and the body of every BlockStatement nested in it list the declarations
\* before the other statements.
C24_HoistsNestedBlocks ==
  (/\ ran # <<>> /\ Last(ran) = "hoister"
   /\ ast.type = "Program") => HoistedEverywhere(out)

\* the property nodes of the member accesses of a tree, in order
RECURSIVE MemberProperties(_), MemberPropertiesIn(_)
MemberProperties(n) ==
  (IF n.type = "MemberExpression" THEN <<n.property>> ELSE <<>>)
    \o MemberPropertiesIn(ChildSeq(n))

MemberPropertiesIn(seq) ==
  IF seq = <<>> THEN <<>>
  ELSE MemberProperties(Head(seq)) \o MemberPropertiesIn(Tail(seq))

\* the names of the function declarations of a tree, in order
RECURSIVE FunctionNames(_), FunctionNamesIn(_)
FunctionNames(n) ==
  (IF n.type = "FunctionDeclaration" THEN <<n.name>> ELSE <<>>)
    \o FunctionNamesIn(ChildSeq(n))

FunctionNamesIn(seq) ==
  IF seq = <<>> THEN <<>>
  ELSE FunctionNames(Head(seq)) \o FunctionNamesIn(Tail(seq))

\* C25: the variable renamer leaves the name of every function declaration
\* and the property of every member access as they were, even when a
\* variable of that name has been renamed.
C25_NamesKept ==
  (ran # <<>> /\ Last(ran) = "variable-renamer") =>
    /\ FunctionNames(out) = FunctionNames(ast)
    /\ MemberProperties(out) = MemberProperties(ast)

\* let a = 1; a - 1;
DeclareThenSubtract ==
  Program(<<VarDecl("let", "a", One), ExprStmt(Bin("-", Ident("a"), One))>>)

\* C26: the type checker, having visited `let a = 1`, checks a - 1 without
\* appending an error and gives it the result type number.
C26_IdentifierResolved ==
  (ran = <<"type-checker">> /\ ast = DeclareThenSubtract) =>
    /\ errors = <<>>
    /\ out.body[2].expression.inferredType = "number"

BooleanOperators == {"<", "<=", ">", ">=", "==", "!=", "&&", "||"}

\* C27: the type checker gives the result type boolean to a binary
\* expression whose operator is a comparison, an equality or a logical
\* operator, whatever its operands.
C27_BooleanResult ==
  (/\ ran = <<"type-checker">>
   /\ ast.type = "BinaryExpression"
   /\ ast.operator \in BooleanOperators) =>
    /\ out.inferredType = "boolean"
    /\ getBinaryResultType(inferType(ast.left), inferType(ast.right), ast.operator)
         = "boolean"

\* ------------------------------------------------------------------------
\* The lexer built from the token list of lexer/tokens.ts: at every offset
\* the token types are tried in the order of allTokens and the first one
\* whose pattern matches there is taken
\* ------------------------------------------------------------------------
\* the token types in the order of allTokens; a type whose pattern is a
\* fixed text carries it as image, the others are matched by PatternLength
allTokens ==
  <<[name |-> "WhiteSpace", fixed |-> FALSE, image |-> <<>>],
    [name |-> "Comment", fixed |-> FALSE, image |-> <<>>],
    [name |-> "MultiLineComment", fixed |-> FALSE, image |-> <<>>],
    [name |-> "Function", fixed |-> TRUE, image |-> <<"f", "u", "n", "c", "t", "i", "o", "n">>],
    [name |-> "Fn", fixed |-> TRUE, image |-> <<"f", "n">>],
    [name |-> "Returns", fixed |-> TRUE, image |-> <<"r", "e", "t", "u", "r", "n", "s">>],
    [name |-> "Return", fixed |-> TRUE, image |-> <<"r", "e", "t", "u", "r", "n">>],
    [name |-> "If", fixed |-> TRUE, image |-> <<"i", "f">>],
    [name |-> "Else", fixed |-> TRUE, image |-> <<"e", "l", "s", "e">>],
    [name |-> "For", fixed |-> TRUE, image |-> <<"f", "o", "r">>],
    [name |-> "Let", fixed |-> TRUE, image |-> <<"l", "e", "t">>],
    [name |-> "Var", fixed |-> TRUE, image |-> <<"v", "a", "r">>],
    [name |-> "Macro", fixed |-> TRUE, image |-> <<"m", "a", "c", "r", "o">>],
    [name |-> "End", fixed |-> TRUE, image |-> <<"e", "n", "d">>],
    [name |-> "Api", fixed |-> TRUE, image |-> <<"a", "p", "i">>],
    [name |-> "Type", fixed |-> TRUE, image |-> <<"t", "y", "p", "e">>],
    [name |-> "Module", fixed |-> TRUE, image |-> <<"m", "o", "d", "u", "l", "e">>],
    [name |-> "Import", fixed |-> TRUE, image |-> <<"i", "m", "p", "o", "r", "t">>],
    [name |-> "Export", fixed |-> TRUE, image |-> <<"e", "x", "p", "o", "r", "t">>],
    [name |-> "From", fixed |-> TRUE, image |-> <<"f", "r", "o", "m">>],
    [name |-> "As", fixed |-> TRUE, image |-> <<"a", "s">>],
    [name |-> "Method", fixed |-> TRUE, image |-> <<"m", "e", "t", "h", "o", "d">>],
    [name |-> "Path", fixed |-> TRUE, image |-> <<"p", "a", "t", "h">>],
    [name |-> "Params", fixed |-> TRUE, image |-> <<"p", "a", "r", "a", "m", "s">>],
    [name |-> "Headers", fixed |-> TRUE, image |-> <<"h", "e", "a", "d", "e", "r", "s">>],
    [name |-> "Description", fixed |-> TRUE, image |-> <<"d", "e", "s", "c", "r", "i", "p", "t", "i", "o", "n">>],
    [name |-> "Required", fixed |-> TRUE, image |-> <<"r", "e", "q", "u", "i", "r", "e", "d">>],
    [name |-> "Optional", fixed |-> TRUE, image |-> <<"o", "p", "t", "i", "o", "n", "a", "l">>],
    [name |-> "Extends", fixed |-> TRUE, image |-> <<"e", "x", "t", "e", "n", "d", "s">>],
    [name |-> "Implements", fixed |-> TRUE, image |-> <<"i", "m", "p", "l", "e", "m", "e", "n", "t", "s">>],
    [name |-> "Default", fixed |-> TRUE, image |-> <<"d", "e", "f", "a", "u", "l", "t">>],
    [name |-> "Enum", fixed |-> TRUE, image |-> <<"e", "n", "u", "m">>],
    [name |-> "Interface", fixed |-> TRUE, image |-> <<"i", "n", "t", "e", "r", "f", "a", "c", "e">>],
    [name |-> "String", fixed |-> TRUE, image |-> <<"s", "t", "r", "i", "n", "g">>],
    [name |-> "Number", fixed |-> TRUE, image |-> <<"n", "u", "m", "b", "e", "r">>],
    [name |-> "Boolean", fixed |-> TRUE, image |-> <<"b", "o", "o", "l", "e", "a", "n">>],
    [name |-> "Void", fixed |-> TRUE, image |-> <<"v", "o", "i", "d">>],
    [name |-> "Object", fixed |-> TRUE, image |-> <<"o", "b", "j", "e", "c", "t">>],
    [name |-> "Array", fixed |-> TRUE, image |-> <<"a", "r", "r", "a", "y">>],
    [name |-> "StringLiteral", fixed |-> FALSE, image |-> <<>>],
    [name |-> "NumberLiteral", fixed |-> FALSE, image |-> <<>>],
    [name |-> "BooleanLiteral", fixed |-> FALSE, image |-> <<>>],
    [name |-> "Equals", fixed |-> TRUE, image |-> <<"=", "=">>],
    [name |-> "NotEquals", fixed |-> TRUE, image |-> <<"!", "=">>],
    [name |-> "LessThanEquals", fixed |-> TRUE, image |-> <<"<", "=">>],
    [name |-> "GreaterThanEquals", fixed |-> TRUE, image |-> <<">", "=">>],
    [name |-> "LessThan", fixed |-> TRUE, image |-> <<"<">>],
    [name |-> "GreaterThan", fixed |-> TRUE, image |-> <<">">>],
    [name |-> "Plus", fixed |-> TRUE, image |-> <<"+">>],
    [name |-> "Arrow", fixed |-> TRUE, image |-> <<"-", ">">>],
    [name |-> "Minus", fixed |-> TRUE, image |-> <<"-">>],
    [name |-> "Multiply", fixed |-> TRUE, image |-> <<"*">>],
    [name |-> "Divide", fixed |-> TRUE, image |-> <<"/">>],
    [name |-> "Modulo", fixed |-> TRUE, image |-> <<"%">>],
    [name |-> "Assign", fixed |-> TRUE, image |-> <<"=">>],
    [name |-> "And", fixed |-> TRUE, image |-> <<"&", "&">>],
    [name |-> "Or", fixed |-> TRUE, image |-> <<"|", "|">>],
    [name |-> "LeftParen", fixed |-> TRUE, image |-> <<"(">>],
    [name |-> "RightParen", fixed |-> TRUE, image |-> <<")">>],
    [name |-> "LeftBrace", fixed |-> TRUE, image |-> <<"{">>],
    [name |-> "RightBrace", fixed |-> TRUE, image |-> <<"}">>],
    [name |-> "LeftBracket", fixed |-> TRUE, image |-> <<"[">>],
    [name |-> "RightBracket", fixed |-> TRUE, image |-> <<"]">>],
    [name |-> "Semicolon", fixed |-> TRUE, image |-> <<";">>],
    [name |-> "Comma", fixed |-> TRUE, image |-> <<",">>],
    [name |-> "Colon", fixed |-> TRUE, image |-> <<":">>],
    [name |-> "Dot", fixed |-> TRUE, image |-> <<".">>],
    [name |-> "AtSymbol", fixed |-> TRUE, image |-> <<"@">>],
    [name |-> "Identifier", fixed |-> FALSE, image |-> <<>>]>>

\* the types created with group: Lexer.SKIPPED
SkippedTokens == {"WhiteSpace", "Comment", "MultiLineComment"}

\* TRUE when the characters of image stand in src at offset p
StartsWith(src, p, image) ==
  /\ p + Len(image) <= Len(src)
  /\ \A i \in 1..Len(image) : src[p + i] = image[i]

\* the length of the longest run of characters of set in src from offset p
RECURSIVE RunLength(_, _, _)
RunLength(src, p, set) ==
  IF p < Len(src) /\ CharAt(src, p) \in set THEN 1 + RunLength(src, p + 1, set)
  ELSE 0

\* the offset of the first occurrence of image in src from offset p, or -1
RECURSIVE IndexOf(_, _, _)
IndexOf(src, p, image) ==
  IF p + Len(image) > Len(src) THEN 0 - 1
  ELSE IF StartsWith(src, p, image) THEN p
  ELSE IndexOf(src, p + 1, image)

\* every character of src from offset p up to the end of the line
RECURSIVE RestOfLine(_, _)
RestOfLine(src, p) ==
  IF p < Len(src) /\ CharAt(src, p) \notin {NL, CR} THEN 1 + RestOfLine(src, p + 1)
  ELSE 0

\* /[0-9]+(\.[0-9]+)?/
NumberLiteralLength(src, p) ==
  LET whole == RunLength(src, p, Digits)
      fraction == RunLength(src, p + whole + 1, Digits)
  IN IF whole = 0 THEN 0
     ELSE IF StartsWith(src, p + whole, <<".">>) /\ fraction > 0
          THEN whole + 1 + fraction
     ELSE whole

\* /"[^"]*"/
StringLiteralLength(src, p) ==
  LET close == IndexOf(src, p + 1, <<DQ>>)
  IN IF StartsWith(src, p, <<DQ>>) /\ close >= 0 THEN close + 1 - p ELSE 0

\* /\/\*[\s\S]*?\*\//
MultiLineCommentLength(src, p) ==
  LET close == IndexOf(src, p + 2, <<"*", "/">>)
  IN IF StartsWith(src, p, <<"/", "*">>) /\ close >= 0 THEN close + 2 - p ELSE 0

\* /[a-zA-Z_][a-zA-Z0-9_]*/
IdentifierLength(src, p) ==
  IF p < Len(src) /\ isLetter(CharAt(src, p))
  THEN 1 + RunLength(src, p + 1, Letters \cup Digits)
  ELSE 0

\* the length of the match of the pattern of a token type at offset p of
\* src; 0 when the pattern does not match there
PatternLength(tokType, src, p) ==
  IF tokType.fixed
  THEN IF StartsWith(src, p, tokType.image) THEN Len(tokType.image) ELSE 0
  ELSE CASE tokType.name = "WhiteSpace" -> RunLength(src, p, {" ", TAB, NL, CR})
         [] tokType.name = "Comment" ->
              IF StartsWith(src, p, <<"/", "/">>) THEN 2 + RestOfLine(src, p + 2)
              ELSE 0
         [] tokType.name = "MultiLineComment" -> MultiLineCommentLength(src, p)
         [] tokType.name = "StringLiteral" -> StringLiteralLength(src, p)
         [] tokType.name = "NumberLiteral" -> NumberLiteralLength(src, p)
         [] tokType.name = "BooleanLiteral" ->
              IF StartsWith(src, p, <<"t", "r", "u", "e">>) THEN 4
              ELSE IF StartsWith(src, p, <<"f", "a", "l", "s", "e">>) THEN 5
              ELSE 0
         [] tokType.name = "Identifier" -> IdentifierLength(src, p)

\* the index in allTokens of the first type that matches at offset p of
\* src, looking from index on; 0 when no type matches
RECURSIVE firstMatch(_, _, _)
firstMatch(src, p, index) ==
  IF index > Len(allTokens) THEN 0
  ELSE IF PatternLength(allTokens[index], src, p) > 0 THEN index
  ELSE firstMatch(src, p, index + 1)

\* the token of the lexer: its type name and the text it covers
LexToken(tokType, src, p) ==
  [type |-> tokType.name,
   image |-> Substring(src, p, p + PatternLength(tokType, src, p))]

\* the characters of the lexer inputs
LexerAlphabet == {"i", "f", "a", "s", "1", " ", "#"}

SrcFormat == <<"f", "o", "r", "m", "a", "t">>

SrcLetter == <<"l", "e", "t", "t", "e", "r">>

SrcIffy == <<"i", "f", "f", "y">>

SrcWordFor == <<"f", "o", "r">>

SrcName == <<"n", "a", "m", "e">>

\* the inputs of tokenize: every text of at most MaxSrcLen characters of
\* the alphabet, and some longer words
LexerSources ==
  UNION {[1..n -> LexerAlphabet] : n \in 0..MaxSrcLen}
    \cup {SrcFormat, SrcLetter, SrcIffy, SrcWordFor, SrcName}

InitLexer ==
  /\ source \in LexerSources
  /\ position = 0 /\ line = 1 /\ column = 1
  /\ tokens = <<>>
  /\ stage = "lexer"
  /\ names = <<>>
  /\ Idle

\* LingualLexer.tokenize takes the next token: the first type of allTokens
\* that matches at the offset; a skipped type adds no token
LexNext ==
  /\ stage = "lexer"
  /\ position < Len(source)
  /\ firstMatch(source, position, 1) # 0
  /\ LET tokType == allTokens[firstMatch(source, position, 1)]
         tok == LexToken(tokType, source, position)
     IN /\ position' = position + PatternLength(tokType, source, position)
        /\ tokens' = IF tokType.name \in SkippedTokens THEN tokens
                     ELSE Append(tokens, tok)
  /\ UNCHANGED <<source, line, column, stage, cst, ast, out, errors, warnings,
                 macros, call, ran, names, step>>

\* no type matches at the offset: the lexer records an error, and tokenize
\* throws "Lexer errors: ..."
LexError ==
  /\ stage = "lexer"
  /\ position < Len(source)
  /\ firstMatch(source, position, 1) = 0
  /\ stage' = "lexer-failed"
  /\ UNCHANGED <<source, position, line, column, tokens, cst, ast, out, errors,
                 warnings, macros, call, ran, names, step>>

\* the end of the input: tokenize returns lexResult.tokens
LexEnd ==
  /\ stage = "lexer"
  /\ position = Len(source)
  /\ stage' = "lexed"
  /\ UNCHANGED <<source, position, line, column, tokens, cst, ast, out, errors,
                 warnings, macros, call, ran, names, step>>

NextLexer == LexNext \/ LexError \/ LexEnd

SpecLexer == InitLexer /\ [][NextLexer]_vars

\* a word: a letter followed by letters and digits, and nothing else
IsWord(src) ==
  /\ src # <<>>
  /\ isLetter(src[1])
  /\ \A i \in 1..Len(src) : src[i] \in Letters \cup Digits

\* the fixed texts of allTokens that are words (the keywords)
KeywordImages ==
  {allTokens[i].image : i \in {j \in 1..Len(allTokens) :
                                 allTokens[j].fixed /\ IsWord(allTokens[j].image)}}

\* C28: the lexer takes the longest match and a keyword only when the whole
\* word is the keyword: a word that merely starts with a keyword (format,
\* letter, iffy) is lexed as one Identifier token covering the whole word
C28_WholeWordIdentifier ==
  (stage = "lexed" /\ IsWord(source) /\ source \notin KeywordImages
     /\ source \notin {<<"t", "r", "u", "e">>, <<"f", "a", "l", "s", "e">>})
    => tokens = <<[type |-> "Identifier",
                   image |-> Substring(source, 0, Len(source))]>>

IsNotFoundWarning(w) == w.code = "MIDDLEWARE_NOT_FOUND"

MinifierNotFound ==
  [code |-> "MIDDLEWARE_NOT_FOUND", message |-> "Middleware 'minifier' not found"]

\* C29: on a name of the list that has no registered middleware,
\* applyMiddleware appends exactly one MIDDLEWARE_NOT_FOUND warning for it,
\* leaves the tree and context.errors as they are, and goes on: the
\* registered names after it still run in order, and the call returns only
\* after the whole list.
C29_MissingPass ==
  /\ [][(stage = "middleware" /\ step < Len(names) /\ names[step + 1] = "minifier")
          => /\ warnings' = Append(warnings, MinifierNotFound)
             /\ out' = out /\ errors' = errors /\ ran' = ran
             /\ step' = step + 1
             /\ stage' = "middleware"]_vars
  /\ [](stage = "applied"
          => /\ step = Len(names)
             /\ ran = SelectSeq(names, IsRegistered)
             /\ Len(SelectSeq(warnings, IsNotFoundWarning))
                  = Len(names) - Len(SelectSeq(names, IsRegistered)))

\* the hoister has run, and changed the tree, after a name that was not found
C29_Witness ==
  /\ stage = "applied"
  /\ names = <<"minifier", "hoister">>
  /\ ran = <<"hoister">>
  /\ warnings = <<MinifierNotFound>>
  /\ errors = <<>>
  /\ out = hoistDeclarations(ast)
  /\ out # ast

\* the cursor where a parse function returned or threw is not before the
\* cursor where it started, nor after the EOF token
CursorForward(toks, from, r) == from <= r.cur /\ r.cur <= Len(toks) - 1

\* C30: on a token list that ends with EOF, Parser.parse ends, with a
\* Program or with a thrown error; the cursor never moves backwards, and a
\* parseStatement call that returns, from any token of the list, has
\* consumed at least one token.
C30_ParserProgress ==
  /\ stage = "tokenized"
       => /\ tokens[Len(tokens)].type = "EOF"
          /\ \A c \in 0..(Len(tokens) - 1) :
               /\ CursorForward(tokens, c, parseStatement(tokens, c))
               /\ CursorForward(tokens, c, parseExpression(tokens, c))
               /\ parseStatement(tokens, c).ok => parseStatement(tokens, c).cur > c
  /\ stage \in {"parsed", "failed"}
       => /\ cst = parse(tokens)
          /\ CursorForward(tokens, 0, cst)
          /\ cst.ok => /\ cst.node.type = "PROGRAM"
                       /\ cst.cur = Len(tokens) - 1
                       /\ Len(cst.node.body) <= cst.cur

\* parse has returned a Program of two statements, the first one a block
\* with a statement inside, and the cursor is on the EOF token
C30_Witness ==
  /\ stage = "parsed"
  /\ source = SrcBlockThen
  /\ cst.ok
  /\ Len(cst.node.body) = 2
  /\ cst.node.body[1].type = "BLOCK_STATEMENT"
  /\ Len(cst.node.body[1].body) = 1
  /\ cst.cur = Len(tokens) - 1
  /\ cst.cur = 6

====
